---- MODULE Spec2Model ----
(***************************************************************************)
(* Query orchestration core of the weather plugin: CircuitBreaker,         *)
(* WeatherService (retry policy, cache read/write-through, degradation)    *)
(* and the SQLite CacheManager, as a state machine.                        *)
(*                                                                         *)
(* Time is a discrete clock `now`.  One tick stands for a period at least  *)
(* as long as the longest single wait of a request (the HTTP timeout of    *)
(* 30 s, api_client.py:49; the longest back-off sleep is 4.5 s), so a      *)
(* request sees at most one tick while it is suspended.  Durations of the  *)
(* configuration (recovery_timeout, cache TTLs, the 24 h window) are       *)
(* scaled down to a few ticks.  Back-off delays are kept exact, in         *)
(* quarter seconds.                                                        *)
(*                                                                         *)
(* The service runs on one asyncio event loop: code between two real       *)
(* suspension points (the HTTP request, asyncio.sleep) runs atomically,    *)
(* so each action below is one such run of a request coroutine.            *)
(*                                                                         *)
(* Spec has one caller at a time and every request, payload and failure;   *)
(* SpecConcurrent has two tasks that share the breaker and the cache.      *)
(***************************************************************************)
EXTENDS Integers, Sequences, FiniteSets, TLC

\* ----------------------------------------------------------------------
\* Bounds of the model (configuration scaled to ticks, and search limits)
\* ----------------------------------------------------------------------
failure_threshold == 3
recovery_timeout == 2
cache_ttl_current == 2
cache_ttl_forecast == 3
SimilarWindow == 4
MaxTime == 4
MaxRequests == 2
MaxFailures == 4

\* default of _handle_api_error_with_retry(max_retries=2)
max_retries == 2

\* The tasks (coroutines awaiting a request method), and the single task of
\* the sequential specification
Procs == {"t1", "t2"}
Sequential == {"t1"}

NoTime == 0 - 1

\* ----------------------------------------------------------------------
\* Strings.  TLC cannot index a string, so the texts that the code searches
\* character by character (cache keys, location names) get their
\* characters from the table Chars.
\* ----------------------------------------------------------------------
md5_hexdigest(key_components) ==
    CASE key_components = <<"london", "weather", <<"units", "metric">>>>
         -> "b82eeae3343116600dd13a7604793904"
      [] key_components = <<"london", "forecast", <<"days", "1">>, <<"units", "metric">>>>
         -> "54c7a56376688d6e0926365307d57ff7"
      [] key_components = <<"london", "forecast", <<"days", "3">>, <<"units", "metric">>>>
         -> "08f2fa1fc3f60b2e69013a44b8889488"
      [] key_components = <<"london", "hourly", <<"hours", "24">>, <<"units", "metric">>>>
         -> "4bb0caa696eed5e4a51e9fad8c1313a2"
      [] key_components = <<"london", "weather", <<"units", "imperial">>>>
         -> "9b0b6c39e092d6e200dadbfb1c511f92"
      [] key_components = <<"london", "forecast", <<"days", "1">>, <<"units", "imperial">>>>
         -> "aa9dfd4c3258d15871eb9571d8bd5274"
      [] key_components = <<"london", "forecast", <<"days", "3">>, <<"units", "imperial">>>>
         -> "1f8d7f805121f5b42937d309c5cb4416"
      [] key_components = <<"london", "hourly", <<"hours", "24">>, <<"units", "imperial">>>>
         -> "1373e3a04f57f542a854c6ed49420045"
      [] key_components = <<"wellington", "weather", <<"units", "metric">>>>
         -> "786bda7b98437c2792c1268b0f45820f"
      [] key_components = <<"wellington", "forecast", <<"days", "1">>, <<"units", "metric">>>>
         -> "2ba1e42bf972ad606cd22a255356e510"
      [] key_components = <<"wellington", "forecast", <<"days", "3">>, <<"units", "metric">>>>
         -> "781287bc754a8c74beab5c26b9b15ea0"
      [] key_components = <<"wellington", "hourly", <<"hours", "24">>, <<"units", "metric">>>>
         -> "88c9c2e9d5fa34b9f849712a8657b37a"
      [] key_components = <<"wellington", "weather", <<"units", "imperial">>>>
         -> "ecba700c696959b275364c5bda8233cd"
      [] key_components = <<"wellington", "forecast", <<"days", "1">>, <<"units", "imperial">>>>
         -> "c84ba6ad7676f9891399ad492d21ecd3"
      [] key_components = <<"wellington", "forecast", <<"days", "3">>, <<"units", "imperial">>>>
         -> "273a4ea194e939c2080629b9d166149a"
      [] key_components = <<"wellington", "hourly", <<"hours", "24">>, <<"units", "imperial">>>>
         -> "300952c521888c51a6345302a6eeb0b9"
      [] key_components = <<"london", "weather">>
         -> "54bcd63f74527c305067eb3004bb2db3"
      [] key_components = <<"london", "weather", <<"days", "1">>>>
         -> "7d774e7314b7e3d3911bf4099629a3b1"
      [] key_components = <<"london", "weather", <<"days", "3">>>>
         -> "fd552acc20e06cff10cfdff2b650037a"
      [] key_components = <<"london", "weather", <<"hours", "24">>>>
         -> "4af5d0eca6c090c81996c63dc814e992"
      [] key_components = <<"london", "weather", <<"days", "1">>, <<"hours", "24">>>>
         -> "a89eb2a359d44dae76c68be85f5e8bf3"
      [] key_components = <<"london", "weather", <<"days", "1">>, <<"units", "metric">>>>
         -> "540ba46c92856bab12015d80c0e447a1"
      [] key_components = <<"london", "weather", <<"days", "1">>, <<"units", "imperial">>>>
         -> "4e66a59970b2aaef0fbb2d538596fb89"
      [] key_components = <<"london", "weather", <<"days", "3">>, <<"hours", "24">>>>
         -> "b7e5c7a427974d9f41f2a4935df2ac45"
      [] key_components = <<"london", "weather", <<"days", "3">>, <<"units", "metric">>>>
         -> "fee9107ca6181dece1d0453727cf4303"
      [] key_components = <<"london", "weather", <<"days", "3">>, <<"units", "imperial">>>>
         -> "71a78560b22824a66f5201bb2184b426"
      [] key_components = <<"london", "weather", <<"hours", "24">>, <<"days", "1">>>>
         -> "c92779b10e130c25e914e0e9d4b825ad"
      [] key_components = <<"london", "weather", <<"hours", "24">>, <<"days", "3">>>>
         -> "a01ceac1e2019f467256bbeb3fb41a93"
      [] key_components = <<"london", "weather", <<"hours", "24">>, <<"units", "metric">>>>
         -> "eadf6b4afe56c69a842c499943ebb4ba"
      [] key_components = <<"london", "weather", <<"hours", "24">>, <<"units", "imperial">>>>
         -> "f33aab76edd2665746c70f9bf50dc2c0"
      [] key_components = <<"london", "weather", <<"units", "metric">>, <<"days", "1">>>>
         -> "0b56f938ea0605f7d41fcfe27f4115dd"
      [] key_components = <<"london", "weather", <<"units", "metric">>, <<"days", "3">>>>
         -> "ee880a763fe4da72c0b8a23fb6467b98"
      [] key_components = <<"london", "weather", <<"units", "metric">>, <<"hours", "24">>>>
         -> "c0b800380fd26889912210c96f15f5c0"
      [] key_components = <<"london", "weather", <<"units", "imperial">>, <<"days", "1">>>>
         -> "324adecf090365704448f69acbc390e4"
      [] key_components = <<"london", "weather", <<"units", "imperial">>, <<"days", "3">>>>
         -> "b34cbf22b56f85ec8ed91cd73d3209ed"
      [] key_components = <<"london", "weather", <<"units", "imperial">>, <<"hours", "24">>>>
         -> "188ed0a91c5dba5f3a4b36c14a3165ef"
      [] key_components = <<"london", "weather", <<"days", "1">>, <<"hours", "24">>, <<"units", "metric">>>>
         -> "c938d7587f9afb9dd2588cb7b91662c2"
      [] key_components = <<"london", "weather", <<"days", "1">>, <<"hours", "24">>, <<"units", "imperial">>>>
         -> "b4afe260b6817e8e4e05c11774ddf7e6"
      [] key_components = <<"london", "weather", <<"days", "1">>, <<"units", "metric">>, <<"hours", "24">>>>
         -> "f75afeffa8c8e8fd8feefc2548cc2a11"
      [] key_components = <<"london", "weather", <<"days", "1">>, <<"units", "imperial">>, <<"hours", "24">>>>
         -> "c211b3ee63a6cdfd6bba6fa68c381d60"
      [] key_components = <<"london", "weather", <<"days", "3">>, <<"hours", "24">>, <<"units", "metric">>>>
         -> "f51a45916d01fae5f97d6db07549b0b9"
      [] key_components = <<"london", "weather", <<"days", "3">>, <<"hours", "24">>, <<"units", "imperial">>>>
         -> "5a375f3ded03fcba60677dcb9bfa40ab"
      [] key_components = <<"london", "weather", <<"days", "3">>, <<"units", "metric">>, <<"hours", "24">>>>
         -> "289479ccbd08df28e8949bec213eec4c"
      [] key_components = <<"london", "weather", <<"days", "3">>, <<"units", "imperial">>, <<"hours", "24">>>>
         -> "f521f404b7ae9c56afba8886c206e797"
      [] key_components = <<"london", "weather", <<"hours", "24">>, <<"days", "1">>, <<"units", "metric">>>>
         -> "4cb2ed87a04deecc961c987db794f1cb"
      [] key_components = <<"london", "weather", <<"hours", "24">>, <<"days", "1">>, <<"units", "imperial">>>>
         -> "5e09b82ec1ec524ac86a7f501ccb4441"
      [] key_components = <<"london", "weather", <<"hours", "24">>, <<"days", "3">>, <<"units", "metric">>>>
         -> "3d4104a0ec774c0e2993e7b2c311a5e0"
      [] key_components = <<"london", "weather", <<"hours", "24">>, <<"days", "3">>, <<"units", "imperial">>>>
         -> "871692b91760603ce3b3173b4d0d81bb"
      [] key_components = <<"london", "weather", <<"hours", "24">>, <<"units", "metric">>, <<"days", "1">>>>
         -> "905166882469ca1fe0f4838f49a3c5a0"
      [] key_components = <<"london", "weather", <<"hours", "24">>, <<"units", "metric">>, <<"days", "3">>>>
         -> "0fba4188a526bf7bb9d8f01bf23664d3"
      [] key_components = <<"london", "weather", <<"hours", "24">>, <<"units", "imperial">>, <<"days", "1">>>>
         -> "183ea1728823a1403b31203046e2b795"
      [] key_components = <<"london", "weather", <<"hours", "24">>, <<"units", "imperial">>, <<"days", "3">>>>
         -> "a1802777acb5a2db8b89038784ff66d7"
      [] key_components = <<"london", "weather", <<"units", "metric">>, <<"days", "1">>, <<"hours", "24">>>>
         -> "158df4cc59da1c0abbaf72e7fe961db4"
      [] key_components = <<"london", "weather", <<"units", "metric">>, <<"days", "3">>, <<"hours", "24">>>>
         -> "89e4b6e3910e9fa0ef770a19c7fa4ab5"
      [] key_components = <<"london", "weather", <<"units", "metric">>, <<"hours", "24">>, <<"days", "1">>>>
         -> "1e894837841e057a098bfd62f9387d93"
      [] key_components = <<"london", "weather", <<"units", "metric">>, <<"hours", "24">>, <<"days", "3">>>>
         -> "732c17dff3ebc1dc00d4f785eec8f7b9"
      [] key_components = <<"london", "weather", <<"units", "imperial">>, <<"days", "1">>, <<"hours", "24">>>>
         -> "8edaeac3f1956f6f683334ba3ce03ee5"
      [] key_components = <<"london", "weather", <<"units", "imperial">>, <<"days", "3">>, <<"hours", "24">>>>
         -> "2b0817f09fd48af01f140af15be04b65"
      [] key_components = <<"london", "weather", <<"units", "imperial">>, <<"hours", "24">>, <<"days", "1">>>>
         -> "c34328b9e06b165b22ded726a0667f68"
      [] key_components = <<"london", "weather", <<"units", "imperial">>, <<"hours", "24">>, <<"days", "3">>>>
         -> "fd97c8b86ce2a27256d83f5fd7b7c151"
      [] key_components = <<"london", "forecast">>
         -> "d050d5d47d568b856f83c618e17aa368"
      [] key_components = <<"london", "forecast", <<"days", "1">>>>
         -> "e5e67219d4887ccdca9354d1486b3b3e"
      [] key_components = <<"london", "forecast", <<"days", "3">>>>
         -> "dd5bed7730d4d6d8939a2c94d438a92f"
      [] key_components = <<"london", "forecast", <<"hours", "24">>>>
         -> "c7970ad91f9b70b4ea06113c4ba3deab"
      [] key_components = <<"london", "forecast", <<"units", "metric">>>>
         -> "472eb18bc0d8d3d7864c437aef515cd0"
      [] key_components = <<"london", "forecast", <<"units", "imperial">>>>
         -> "1785b5afd3b89696c23c33c1651300e5"
      [] key_components = <<"london", "forecast", <<"days", "1">>, <<"hours", "24">>>>
         -> "4eb0ad149915da7738f99904506f76f3"
      [] key_components = <<"london", "forecast", <<"days", "3">>, <<"hours", "24">>>>
         -> "c45ad374347d61434b54bf35a7b4cffb"
      [] key_components = <<"london", "forecast", <<"hours", "24">>, <<"days", "1">>>>
         -> "7a2dbdfea532cf7df6ff8e40d96e2e61"
      [] key_components = <<"london", "forecast", <<"hours", "24">>, <<"days", "3">>>>
         -> "5e3ae7aea8295ffc4dee4fc29848b89e"
      [] key_components = <<"london", "forecast", <<"hours", "24">>, <<"units", "metric">>>>
         -> "66c2a05fd735a1783a2e5f6f32ca6514"
      [] key_components = <<"london", "forecast", <<"hours", "24">>, <<"units", "imperial">>>>
         -> "d2b0f9ffd5cf9d4526b9cf6bd4f561f9"
      [] key_components = <<"london", "forecast", <<"units", "metric">>, <<"days", "1">>>>
         -> "c3e5339c4fb941e93618a3e2b63ca726"
      [] key_components = <<"london", "forecast", <<"units", "metric">>, <<"days", "3">>>>
         -> "44d00cecf17c06b5b7d3c31e0ba43d52"
      [] key_components = <<"london", "forecast", <<"units", "metric">>, <<"hours", "24">>>>
         -> "595814e7e5c5082c2d0609b5740a724c"
      [] key_components = <<"london", "forecast", <<"units", "imperial">>, <<"days", "1">>>>
         -> "924f493747b9d188fed8ea7c7124869e"
      [] key_components = <<"london", "forecast", <<"units", "imperial">>, <<"days", "3">>>>
         -> "b242313a6da42e87b9278d295c8e7797"
      [] key_components = <<"london", "forecast", <<"units", "imperial">>, <<"hours", "24">>>>
         -> "123851920b37938e1d7a84e696352dfe"
      [] key_components = <<"london", "forecast", <<"days", "1">>, <<"hours", "24">>, <<"units", "metric">>>>
         -> "daf881883fcb3a29720d99689dced02e"
      [] key_components = <<"london", "forecast", <<"days", "1">>, <<"hours", "24">>, <<"units", "imperial">>>>
         -> "4662671bc4038e0fc544d85890ba65e0"
      [] key_components = <<"london", "forecast", <<"days", "1">>, <<"units", "metric">>, <<"hours", "24">>>>
         -> "489f0c4bd0f505a616adf02471023fe8"
      [] key_components = <<"london", "forecast", <<"days", "1">>, <<"units", "imperial">>, <<"hours", "24">>>>
         -> "f8814a037539d7c1fce234432c75d209"
      [] key_components = <<"london", "forecast", <<"days", "3">>, <<"hours", "24">>, <<"units", "metric">>>>
         -> "2b2b99ec918aeafbe7f96c4104245946"
      [] key_components = <<"london", "forecast", <<"days", "3">>, <<"hours", "24">>, <<"units", "imperial">>>>
         -> "1fdcc42a6e2053e9d54cb12265148b81"
      [] key_components = <<"london", "forecast", <<"days", "3">>, <<"units", "metric">>, <<"hours", "24">>>>
         -> "7fcf86529b13b0240a9c2e2f0eed55fe"
      [] key_components = <<"london", "forecast", <<"days", "3">>, <<"units", "imperial">>, <<"hours", "24">>>>
         -> "dc4668919413304b67840639930c3387"
      [] key_components = <<"london", "forecast", <<"hours", "24">>, <<"days", "1">>, <<"units", "metric">>>>
         -> "0f94e10e07a88b812b982a549d4568d8"
      [] key_components = <<"london", "forecast", <<"hours", "24">>, <<"days", "1">>, <<"units", "imperial">>>>
         -> "40762683ad307598a02595762826869c"
      [] key_components = <<"london", "forecast", <<"hours", "24">>, <<"days", "3">>, <<"units", "metric">>>>
         -> "b1b1a612914df4013851ce8d0df6093c"
      [] key_components = <<"london", "forecast", <<"hours", "24">>, <<"days", "3">>, <<"units", "imperial">>>>
         -> "f984f8fa0898c4b7a44b35e799c73234"
      [] key_components = <<"london", "forecast", <<"hours", "24">>, <<"units", "metric">>, <<"days", "1">>>>
         -> "d0359962e85c462dd3244032ccfe716a"
      [] key_components = <<"london", "forecast", <<"hours", "24">>, <<"units", "metric">>, <<"days", "3">>>>
         -> "813015538b0aa6afb0ff6969f441d974"
      [] key_components = <<"london", "forecast", <<"hours", "24">>, <<"units", "imperial">>, <<"days", "1">>>>
         -> "f353f68bb68ac8511fde268c7c9468d7"
      [] key_components = <<"london", "forecast", <<"hours", "24">>, <<"units", "imperial">>, <<"days", "3">>>>
         -> "878cbb21e2ce24e1e2e489c40c6ad640"
      [] key_components = <<"london", "forecast", <<"units", "metric">>, <<"days", "1">>, <<"hours", "24">>>>
         -> "ea1b65fd75ffe6be41eb25c905d535e2"
      [] key_components = <<"london", "forecast", <<"units", "metric">>, <<"days", "3">>, <<"hours", "24">>>>
         -> "9256118698896807bc146089589a7c58"
      [] key_components = <<"london", "forecast", <<"units", "metric">>, <<"hours", "24">>, <<"days", "1">>>>
         -> "3412df5eab0d41b76ecc050c9732f940"
      [] key_components = <<"london", "forecast", <<"units", "metric">>, <<"hours", "24">>, <<"days", "3">>>>
         -> "d692f1c6138ca87bb0617e5e2c34e104"
      [] key_components = <<"london", "forecast", <<"units", "imperial">>, <<"days", "1">>, <<"hours", "24">>>>
         -> "b51cce75cb5f4f6a2772a3a8a6301281"
      [] key_components = <<"london", "forecast", <<"units", "imperial">>, <<"days", "3">>, <<"hours", "24">>>>
         -> "4f6d19a58a81afe65579144d807f517e"
      [] key_components = <<"london", "forecast", <<"units", "imperial">>, <<"hours", "24">>, <<"days", "1">>>>
         -> "209325ac1d0f9b782ecf6a80839e037d"
      [] key_components = <<"london", "forecast", <<"units", "imperial">>, <<"hours", "24">>, <<"days", "3">>>>
         -> "021d1a6a1a8710024d65c3c4d44d0575"
      [] key_components = <<"london", "hourly">>
         -> "0049c9232bac785dd39f322b4c6d60dc"
      [] key_components = <<"london", "hourly", <<"days", "1">>>>
         -> "3f52c1475d04eb03e2acb862ede83ea9"
      [] key_components = <<"london", "hourly", <<"days", "3">>>>
         -> "71bceabe9ad028c4edab3c7c152d72fd"
      [] key_components = <<"london", "hourly", <<"hours", "24">>>>
         -> "22581241eaf04502d64cb972c5eaa3e7"
      [] key_components = <<"london", "hourly", <<"units", "metric">>>>
         -> "9a676b1e7f29ff47eaf67db1659a4861"
      [] key_components = <<"london", "hourly", <<"units", "imperial">>>>
         -> "85bab945bf4ad7e7432da6ec09803a18"
      [] key_components = <<"london", "hourly", <<"days", "1">>, <<"hours", "24">>>>
         -> "95f5ca6329b2f48fb4807dd5c2c21624"
      [] key_components = <<"london", "hourly", <<"days", "1">>, <<"units", "metric">>>>
         -> "b067ba079c9e232691b7f207ee0b8b06"
      [] key_components = <<"london", "hourly", <<"days", "1">>, <<"units", "imperial">>>>
         -> "9e6872ad2e264de874243b18f05a938d"
      [] key_components = <<"london", "hourly", <<"days", "3">>, <<"hours", "24">>>>
         -> "e8ad47004c6a329f58bc2cab6968ba08"
      [] key_components = <<"london", "hourly", <<"days", "3">>, <<"units", "metric">>>>
         -> "85ecbd248f8e92a28373775f8848a483"
      [] key_components = <<"london", "hourly", <<"days", "3">>, <<"units", "imperial">>>>
         -> "ac502c7e1e210882b0a07513675ba3a2"
      [] key_components = <<"london", "hourly", <<"hours", "24">>, <<"days", "1">>>>
         -> "b665700cbb5fb2e883e1506b1dce3e09"
      [] key_components = <<"london", "hourly", <<"hours", "24">>, <<"days", "3">>>>
         -> "81038af07419ed59263e45c2776a1597"
      [] key_components = <<"london", "hourly", <<"units", "metric">>, <<"days", "1">>>>
         -> "562663f7d29f4b1aa9a63a325fbbd098"
      [] key_components = <<"london", "hourly", <<"units", "metric">>, <<"days", "3">>>>
         -> "5a095b0feffff56ea1b8f20872d8fcac"
      [] key_components = <<"london", "hourly", <<"units", "metric">>, <<"hours", "24">>>>
         -> "f6881ed6eec35fa380175f7ae2224a81"
      [] key_components = <<"london", "hourly", <<"units", "imperial">>, <<"days", "1">>>>
         -> "2607104656ecfc611337548a9c004e72"
      [] key_components = <<"london", "hourly", <<"units", "imperial">>, <<"days", "3">>>>
         -> "c59f6f1b06dba9a356b694434ee38099"
      [] key_components = <<"london", "hourly", <<"units", "imperial">>, <<"hours", "24">>>>
         -> "44339e7dede2393adaa18a80589afbca"
      [] key_components = <<"london", "hourly", <<"days", "1">>, <<"hours", "24">>, <<"units", "metric">>>>
         -> "5fadca0a066c183899d8644e65d5357a"
      [] key_components = <<"london", "hourly", <<"days", "1">>, <<"hours", "24">>, <<"units", "imperial">>>>
         -> "51dccb8b8d18c2afb0c88d6d01ff38ec"
      [] key_components = <<"london", "hourly", <<"days", "1">>, <<"units", "metric">>, <<"hours", "24">>>>
         -> "6247704be0b69c9187da4cdb69fb6695"
      [] key_components = <<"london", "hourly", <<"days", "1">>, <<"units", "imperial">>, <<"hours", "24">>>>
         -> "2a25fb17c4924adbb7689485ec37ebd1"
      [] key_components = <<"london", "hourly", <<"days", "3">>, <<"hours", "24">>, <<"units", "metric">>>>
         -> "ea1a47c87d8264ed9489043b50cf0a7c"
      [] key_components = <<"london", "hourly", <<"days", "3">>, <<"hours", "24">>, <<"units", "imperial">>>>
         -> "8bf30688d20f9fb2783c4fe6613845e5"
      [] key_components = <<"london", "hourly", <<"days", "3">>, <<"units", "metric">>, <<"hours", "24">>>>
         -> "d2ac461799547c45aab3efa0cad97e9e"
      [] key_components = <<"london", "hourly", <<"days", "3">>, <<"units", "imperial">>, <<"hours", "24">>>>
         -> "acaa7aa76ddb515a48ad5db32c9d98ec"
      [] key_components = <<"london", "hourly", <<"hours", "24">>, <<"days", "1">>, <<"units", "metric">>>>
         -> "ecef559e762da809190e61c34e1e43f1"
      [] key_components = <<"london", "hourly", <<"hours", "24">>, <<"days", "1">>, <<"units", "imperial">>>>
         -> "365081b6000fbdc2feba04d3dc916693"
      [] key_components = <<"london", "hourly", <<"hours", "24">>, <<"days", "3">>, <<"units", "metric">>>>
         -> "60190b201bfcf8075e4f42203f740c94"
      [] key_components = <<"london", "hourly", <<"hours", "24">>, <<"days", "3">>, <<"units", "imperial">>>>
         -> "860322888e8f1714d4c43a1fdf0d9877"
      [] key_components = <<"london", "hourly", <<"hours", "24">>, <<"units", "metric">>, <<"days", "1">>>>
         -> "bb34b76f3cf88d1e3c1f6f780a8dc28c"
      [] key_components = <<"london", "hourly", <<"hours", "24">>, <<"units", "metric">>, <<"days", "3">>>>
         -> "aeaeb1d7577be2e8b2cfc320e9686025"
      [] key_components = <<"london", "hourly", <<"hours", "24">>, <<"units", "imperial">>, <<"days", "1">>>>
         -> "e3cec19a5db8e3799f02f3c156691958"
      [] key_components = <<"london", "hourly", <<"hours", "24">>, <<"units", "imperial">>, <<"days", "3">>>>
         -> "e07073a00a4eb0a9f6a0b014bcb86cf9"
      [] key_components = <<"london", "hourly", <<"units", "metric">>, <<"days", "1">>, <<"hours", "24">>>>
         -> "b95d49fd54af25e78494fc4c0fdc0d59"
      [] key_components = <<"london", "hourly", <<"units", "metric">>, <<"days", "3">>, <<"hours", "24">>>>
         -> "205125a7bf2d8bc42f262e52a38c5d2f"
      [] key_components = <<"london", "hourly", <<"units", "metric">>, <<"hours", "24">>, <<"days", "1">>>>
         -> "bc9eb3a4ca835a89ee8de877a87eac7b"
      [] key_components = <<"london", "hourly", <<"units", "metric">>, <<"hours", "24">>, <<"days", "3">>>>
         -> "4b01caa0aa8b4d48c082bfbc8c2a40ed"
      [] key_components = <<"london", "hourly", <<"units", "imperial">>, <<"days", "1">>, <<"hours", "24">>>>
         -> "87608a3070c0e60235e3525b652fbbd7"
      [] key_components = <<"london", "hourly", <<"units", "imperial">>, <<"days", "3">>, <<"hours", "24">>>>
         -> "966c078f4a30740791ba95322c8fbee6"
      [] key_components = <<"london", "hourly", <<"units", "imperial">>, <<"hours", "24">>, <<"days", "1">>>>
         -> "5a72e0726158b270dcedbfc59f1e5839"
      [] key_components = <<"london", "hourly", <<"units", "imperial">>, <<"hours", "24">>, <<"days", "3">>>>
         -> "ed443bd5082824b485eff7d93d6408e7"
      [] key_components = <<"wellington", "weather">>
         -> "16b47dcd03476da4ea2d51d8c7333091"
      [] key_components = <<"wellington", "weather", <<"days", "1">>>>
         -> "697bccc59fe66114579d7792d17e8621"
      [] key_components = <<"wellington", "weather", <<"days", "3">>>>
         -> "3db5b1f6f6a2c49ea3a7512c4e2d6bfe"
      [] key_components = <<"wellington", "weather", <<"hours", "24">>>>
         -> "87aa6958642fc23cf0d0af551d763e51"
      [] key_components = <<"wellington", "weather", <<"days", "1">>, <<"hours", "24">>>>
         -> "c1541f752e7dc8edea33c18cc06516ab"
      [] key_components = <<"wellington", "weather", <<"days", "1">>, <<"units", "metric">>>>
         -> "d56d30b61bde56ba56272419c6f8310a"
      [] key_components = <<"wellington", "weather", <<"days", "1">>, <<"units", "imperial">>>>
         -> "1c0bdb2e7c8113797f9a98d171869f48"
      [] key_components = <<"wellington", "weather", <<"days", "3">>, <<"hours", "24">>>>
         -> "bb9bfb1d4d85a60feb70a5665c72f4b1"
      [] key_components = <<"wellington", "weather", <<"days", "3">>, <<"units", "metric">>>>
         -> "99dccf8209a3c296360e4804201c3417"
      [] key_components = <<"wellington", "weather", <<"days", "3">>, <<"units", "imperial">>>>
         -> "8e001a74918c7ad1fb18e7010555ce3b"
      [] key_components = <<"wellington", "weather", <<"hours", "24">>, <<"days", "1">>>>
         -> "de0cfdc935676384c69836ff8cec4e54"
      [] key_components = <<"wellington", "weather", <<"hours", "24">>, <<"days", "3">>>>
         -> "1a3d7a42f021b649364ef5d85a3a56e2"
      [] key_components = <<"wellington", "weather", <<"hours", "24">>, <<"units", "metric">>>>
         -> "6fb4f0199f0d59ed68cbdbe9acc29662"
      [] key_components = <<"wellington", "weather", <<"hours", "24">>, <<"units", "imperial">>>>
         -> "46bfdb09dcd7dcf106256473ca87bc95"
      [] key_components = <<"wellington", "weather", <<"units", "metric">>, <<"days", "1">>>>
         -> "61acc04ae1fb169f2e8a5d711e77bca3"
      [] key_components = <<"wellington", "weather", <<"units", "metric">>, <<"days", "3">>>>
         -> "a53196c1353d813f22ac7a0a748ec1be"
      [] key_components = <<"wellington", "weather", <<"units", "metric">>, <<"hours", "24">>>>
         -> "aa6da56648231c3daa8483cc213ca5d4"
      [] key_components = <<"wellington", "weather", <<"units", "imperial">>, <<"days", "1">>>>
         -> "0d47730c88247b9665712ed7f526d7ec"
      [] key_components = <<"wellington", "weather", <<"units", "imperial">>, <<"days", "3">>>>
         -> "58610fa2556249c61df1926763cf7207"
      [] key_components = <<"wellington", "weather", <<"units", "imperial">>, <<"hours", "24">>>>
         -> "1a21dac092d3de2dd772713cf2adea5a"
      [] key_components = <<"wellington", "weather", <<"days", "1">>, <<"hours", "24">>, <<"units", "metric">>>>
         -> "e937c678a9048bcb6e74f4517c17d4fb"
      [] key_components = <<"wellington", "weather", <<"days", "1">>, <<"hours", "24">>, <<"units", "imperial">>>>
         -> "94a42c44f734532c7bdb5ca11dda1ffa"
      [] key_components = <<"wellington", "weather", <<"days", "1">>, <<"units", "metric">>, <<"hours", "24">>>>
         -> "25d796700409a50abdc0cbe377d39d6a"
      [] key_components = <<"wellington", "weather", <<"days", "1">>, <<"units", "imperial">>, <<"hours", "24">>>>
         -> "6939ca5be67f0041d05e2de22587dd45"
      [] key_components = <<"wellington", "weather", <<"days", "3">>, <<"hours", "24">>, <<"units", "metric">>>>
         -> "ab22a5afafa0f972a2e91b3d70b4e484"
      [] key_components = <<"wellington", "weather", <<"days", "3">>, <<"hours", "24">>, <<"units", "imperial">>>>
         -> "fe39539fa7e19a8cad1aa6e6c5456006"
      [] key_components = <<"wellington", "weather", <<"days", "3">>, <<"units", "metric">>, <<"hours", "24">>>>
         -> "154b7574fc76433622fe2fa77dace85d"
      [] key_components = <<"wellington", "weather", <<"days", "3">>, <<"units", "imperial">>, <<"hours", "24">>>>
         -> "5341ac511725838d5bf1c9883bb40fd1"
      [] key_components = <<"wellington", "weather", <<"hours", "24">>, <<"days", "1">>, <<"units", "metric">>>>
         -> "a1f975ba14ab5629527a9d585597ab29"
      [] key_components = <<"wellington", "weather", <<"hours", "24">>, <<"days", "1">>, <<"units", "imperial">>>>
         -> "e5479660d8320ab7a52759e56a245e0d"
      [] key_components = <<"wellington", "weather", <<"hours", "24">>, <<"days", "3">>, <<"units", "metric">>>>
         -> "e85cb04fa765ce070d449155c9e4e1c0"
      [] key_components = <<"wellington", "weather", <<"hours", "24">>, <<"days", "3">>, <<"units", "imperial">>>>
         -> "a2b84202aa8da7ff1d867d4c4a4d8a97"
      [] key_components = <<"wellington", "weather", <<"hours", "24">>, <<"units", "metric">>, <<"days", "1">>>>
         -> "9c4a856527d91287244347786f060b9a"
      [] key_components = <<"wellington", "weather", <<"hours", "24">>, <<"units", "metric">>, <<"days", "3">>>>
         -> "09208dc447e2f9fb2ee1bee3b323873d"
      [] key_components = <<"wellington", "weather", <<"hours", "24">>, <<"units", "imperial">>, <<"days", "1">>>>
         -> "7e3c7b71cce8d7faeee0104723150edd"
      [] key_components = <<"wellington", "weather", <<"hours", "24">>, <<"units", "imperial">>, <<"days", "3">>>>
         -> "3581c7003382812e6c4b73f4406368d9"
      [] key_components = <<"wellington", "weather", <<"units", "metric">>, <<"days", "1">>, <<"hours", "24">>>>
         -> "1de9e3f66c8b82aad18c66c2d5333f38"
      [] key_components = <<"wellington", "weather", <<"units", "metric">>, <<"days", "3">>, <<"hours", "24">>>>
         -> "a9ffdd98f57942cce9f182af59d58490"
      [] key_components = <<"wellington", "weather", <<"units", "metric">>, <<"hours", "24">>, <<"days", "1">>>>
         -> "a73946d168c76524d51d9fddb282ca30"
      [] key_components = <<"wellington", "weather", <<"units", "metric">>, <<"hours", "24">>, <<"days", "3">>>>
         -> "8957897ac8cf9df42ad91cfeaa5c724d"
      [] key_components = <<"wellington", "weather", <<"units", "imperial">>, <<"days", "1">>, <<"hours", "24">>>>
         -> "7d46732a68e78f5914dab7aaf8dc18c8"
      [] key_components = <<"wellington", "weather", <<"units", "imperial">>, <<"days", "3">>, <<"hours", "24">>>>
         -> "4fab67c2cff3824f80bea81b0daba4b9"
      [] key_components = <<"wellington", "weather", <<"units", "imperial">>, <<"hours", "24">>, <<"days", "1">>>>
         -> "c5e2baa36a8c3efc46ea7a61c8cc4781"
      [] key_components = <<"wellington", "weather", <<"units", "imperial">>, <<"hours", "24">>, <<"days", "3">>>>
         -> "1cf3f81abaa70d71850eb83dafdae908"
      [] key_components = <<"wellington", "forecast">>
         -> "a2f43a96e8b618209be1e2eb4f78abf2"
      [] key_components = <<"wellington", "forecast", <<"days", "1">>>>
         -> "82035dfa68b45e7202eaaa82a6c94707"
      [] key_components = <<"wellington", "forecast", <<"days", "3">>>>
         -> "4060a9f3684fe293d3abecc10da5c432"
      [] key_components = <<"wellington", "forecast", <<"hours", "24">>>>
         -> "395276e280b21604070c9f74529ef596"
      [] key_components = <<"wellington", "forecast", <<"units", "metric">>>>
         -> "2885efcabe8e3f4b32572af9abbbd9cc"
      [] key_components = <<"wellington", "forecast", <<"units", "imperial">>>>
         -> "d43960c93408a05ca6f48fa9e84bd04a"
      [] key_components = <<"wellington", "forecast", <<"days", "1">>, <<"hours", "24">>>>
         -> "4f1d027235978280235342b72693acda"
      [] key_components = <<"wellington", "forecast", <<"days", "3">>, <<"hours", "24">>>>
         -> "fbf1c677e5679c68df264d0083f90473"
      [] key_components = <<"wellington", "forecast", <<"hours", "24">>, <<"days", "1">>>>
         -> "0d6bae9e077203832ea823d511a3d4ca"
      [] key_components = <<"wellington", "forecast", <<"hours", "24">>, <<"days", "3">>>>
         -> "c548697b1b072b93ab217dcea83eaada"
      [] key_components = <<"wellington", "forecast", <<"hours", "24">>, <<"units", "metric">>>>
         -> "1072980908bbc81367f320d44fea1035"
      [] key_components = <<"wellington", "forecast", <<"hours", "24">>, <<"units", "imperial">>>>
         -> "71740315943c0a9ed773fd88bd11de54"
      [] key_components = <<"wellington", "forecast", <<"units", "metric">>, <<"days", "1">>>>
         -> "bde96c08ec580f4d1d402ecb1ec4d4de"
      [] key_components = <<"wellington", "forecast", <<"units", "metric">>, <<"days", "3">>>>
         -> "41ccda1a584f869a8ca5f27577d5c8b0"
      [] key_components = <<"wellington", "forecast", <<"units", "metric">>, <<"hours", "24">>>>
         -> "165ae11db863cf7f1e26139259287c7f"
      [] key_components = <<"wellington", "forecast", <<"units", "imperial">>, <<"days", "1">>>>
         -> "36950807f318e6d9eada4fe41340ed69"
      [] key_components = <<"wellington", "forecast", <<"units", "imperial">>, <<"days", "3">>>>
         -> "1c6709386fdd240e1fba91b3bf91f97b"
      [] key_components = <<"wellington", "forecast", <<"units", "imperial">>, <<"hours", "24">>>>
         -> "09e99b9d89a55bcee45a4d9ffdb366fd"
      [] key_components = <<"wellington", "forecast", <<"days", "1">>, <<"hours", "24">>, <<"units", "metric">>>>
         -> "e87906e523d63966a9f8df39089527e3"
      [] key_components = <<"wellington", "forecast", <<"days", "1">>, <<"hours", "24">>, <<"units", "imperial">>>>
         -> "3e72ee7bd20d6f16f14bd18ae308da3e"
      [] key_components = <<"wellington", "forecast", <<"days", "1">>, <<"units", "metric">>, <<"hours", "24">>>>
         -> "edde9960d6703abc3c5566f2419b7995"
      [] key_components = <<"wellington", "forecast", <<"days", "1">>, <<"units", "imperial">>, <<"hours", "24">>>>
         -> "29c03827e0fa6d43e01129497cfe83c1"
      [] key_components = <<"wellington", "forecast", <<"days", "3">>, <<"hours", "24">>, <<"units", "metric">>>>
         -> "6afef750d41ea39dd0e2fc7a6aaf68b5"
      [] key_components = <<"wellington", "forecast", <<"days", "3">>, <<"hours", "24">>, <<"units", "imperial">>>>
         -> "f72ce98313bb18854245d43df636a36d"
      [] key_components = <<"wellington", "forecast", <<"days", "3">>, <<"units", "metric">>, <<"hours", "24">>>>
         -> "99d62393471f5d477e07c3aa551f79b3"
      [] key_components = <<"wellington", "forecast", <<"days", "3">>, <<"units", "imperial">>, <<"hours", "24">>>>
         -> "7a4b9eaffdf58fcc0ad171e9a674fb9e"
      [] key_components = <<"wellington", "forecast", <<"hours", "24">>, <<"days", "1">>, <<"units", "metric">>>>
         -> "dcdd9f58632af7d2c82668c978d206b3"
      [] key_components = <<"wellington", "forecast", <<"hours", "24">>, <<"days", "1">>, <<"units", "imperial">>>>
         -> "d2fc2e6c678af588ac34b5bf84a3cfd1"
      [] key_components = <<"wellington", "forecast", <<"hours", "24">>, <<"days", "3">>, <<"units", "metric">>>>
         -> "11f7a74a71747641d180e07d46fd2a36"
      [] key_components = <<"wellington", "forecast", <<"hours", "24">>, <<"days", "3">>, <<"units", "imperial">>>>
         -> "989e6dabd33ccbd2c9d00eea113e3fb6"
      [] key_components = <<"wellington", "forecast", <<"hours", "24">>, <<"units", "metric">>, <<"days", "1">>>>
         -> "9e9d4870fa33ef960ad17b2c29d1a4ce"
      [] key_components = <<"wellington", "forecast", <<"hours", "24">>, <<"units", "metric">>, <<"days", "3">>>>
         -> "debfb605c79bda49713c6c39359c0b14"
      [] key_components = <<"wellington", "forecast", <<"hours", "24">>, <<"units", "imperial">>, <<"days", "1">>>>
         -> "7f428258ed88d14a0dc58c03c242bba1"
      [] key_components = <<"wellington", "forecast", <<"hours", "24">>, <<"units", "imperial">>, <<"days", "3">>>>
         -> "2225cf1b32fb9ae804b345f546af6e9d"
      [] key_components = <<"wellington", "forecast", <<"units", "metric">>, <<"days", "1">>, <<"hours", "24">>>>
         -> "66241c8d0832be908d2387304d461734"
      [] key_components = <<"wellington", "forecast", <<"units", "metric">>, <<"days", "3">>, <<"hours", "24">>>>
         -> "dfad9a949703f0ada97a3f719ee2ffa1"
      [] key_components = <<"wellington", "forecast", <<"units", "metric">>, <<"hours", "24">>, <<"days", "1">>>>
         -> "1621711ed4e78bd72740fe077cae189c"
      [] key_components = <<"wellington", "forecast", <<"units", "metric">>, <<"hours", "24">>, <<"days", "3">>>>
         -> "72ad0f891510ae465b8890ba82c2ee5a"
      [] key_components = <<"wellington", "forecast", <<"units", "imperial">>, <<"days", "1">>, <<"hours", "24">>>>
         -> "d8dfeb943d7888312acaab225fe5efcd"
      [] key_components = <<"wellington", "forecast", <<"units", "imperial">>, <<"days", "3">>, <<"hours", "24">>>>
         -> "441c0eea44ce4531a3633018f1ec5235"
      [] key_components = <<"wellington", "forecast", <<"units", "imperial">>, <<"hours", "24">>, <<"days", "1">>>>
         -> "e8621a7a05354cbbf6914ee342d11819"
      [] key_components = <<"wellington", "forecast", <<"units", "imperial">>, <<"hours", "24">>, <<"days", "3">>>>
         -> "d05f7f890ebcbb015513f4aadb912a2f"
      [] key_components = <<"wellington", "hourly">>
         -> "d03964779826029ccffb9de3cb982b88"
      [] key_components = <<"wellington", "hourly", <<"days", "1">>>>
         -> "e9928313418070da92286205e8e78149"
      [] key_components = <<"wellington", "hourly", <<"days", "3">>>>
         -> "1336e63cfacc0b5b08525f76e8d9fa88"
      [] key_components = <<"wellington", "hourly", <<"hours", "24">>>>
         -> "a43980d71e5eaae2263a0673416f407a"
      [] key_components = <<"wellington", "hourly", <<"units", "metric">>>>
         -> "e697fd30ca8a78943f707fd2da0045e1"
      [] key_components = <<"wellington", "hourly", <<"units", "imperial">>>>
         -> "2213d120b89cf0f13329de92ff412816"
      [] key_components = <<"wellington", "hourly", <<"days", "1">>, <<"hours", "24">>>>
         -> "802158b4da974ead753d2d9294716543"
      [] key_components = <<"wellington", "hourly", <<"days", "1">>, <<"units", "metric">>>>
         -> "fd029f00d893a7e665a24a0f84df4d84"
      [] key_components = <<"wellington", "hourly", <<"days", "1">>, <<"units", "imperial">>>>
         -> "e59366ae94b4bcf0d6e9f2fd57724dd5"
      [] key_components = <<"wellington", "hourly", <<"days", "3">>, <<"hours", "24">>>>
         -> "d9b300766da055682dfdfbef2cfe0a2a"
      [] key_components = <<"wellington", "hourly", <<"days", "3">>, <<"units", "metric">>>>
         -> "a833022c7ac11921af884253bee52e3a"
      [] key_components = <<"wellington", "hourly", <<"days", "3">>, <<"units", "imperial">>>>
         -> "1f10e4a096c68a8551743ef4781d0d82"
      [] key_components = <<"wellington", "hourly", <<"hours", "24">>, <<"days", "1">>>>
         -> "67f2ef207b60ea2e141769b049d2c9dc"
      [] key_components = <<"wellington", "hourly", <<"hours", "24">>, <<"days", "3">>>>
         -> "1d0312d1b89e8c71809f8f997c748f29"
      [] key_components = <<"wellington", "hourly", <<"units", "metric">>, <<"days", "1">>>>
         -> "23af2c298917f6f9776716fadb345357"
      [] key_components = <<"wellington", "hourly", <<"units", "metric">>, <<"days", "3">>>>
         -> "50edb4e3196e160e115d59863ccc196d"
      [] key_components = <<"wellington", "hourly", <<"units", "metric">>, <<"hours", "24">>>>
         -> "f51e72373a7d932b8bb717f9b006c747"
      [] key_components = <<"wellington", "hourly", <<"units", "imperial">>, <<"days", "1">>>>
         -> "d5a68ebd39d43701bb0a1330c2bf257f"
      [] key_components = <<"wellington", "hourly", <<"units", "imperial">>, <<"days", "3">>>>
         -> "34366ff7cb63d75732477feb0ba58949"
      [] key_components = <<"wellington", "hourly", <<"units", "imperial">>, <<"hours", "24">>>>
         -> "9b085804269ae409b40c397e74110559"
      [] key_components = <<"wellington", "hourly", <<"days", "1">>, <<"hours", "24">>, <<"units", "metric">>>>
         -> "36efd6983d0ff0fe94bc99027f7b7bb4"
      [] key_components = <<"wellington", "hourly", <<"days", "1">>, <<"hours", "24">>, <<"units", "imperial">>>>
         -> "78d4a440317164ce169135e532993eab"
      [] key_components = <<"wellington", "hourly", <<"days", "1">>, <<"units", "metric">>, <<"hours", "24">>>>
         -> "1b6f9c7a9c476e775d47128006d0a426"
      [] key_components = <<"wellington", "hourly", <<"days", "1">>, <<"units", "imperial">>, <<"hours", "24">>>>
         -> "238ace4cfe31640582f5071cb9a9c6e9"
      [] key_components = <<"wellington", "hourly", <<"days", "3">>, <<"hours", "24">>, <<"units", "metric">>>>
         -> "f18d2ccd5fa27bd024a31e98cf0ee550"
      [] key_components = <<"wellington", "hourly", <<"days", "3">>, <<"hours", "24">>, <<"units", "imperial">>>>
         -> "5efd966ada2c977aeff561454f30a3ab"
      [] key_components = <<"wellington", "hourly", <<"days", "3">>, <<"units", "metric">>, <<"hours", "24">>>>
         -> "bf9668cdb089e57f065a90797c6da3cf"
      [] key_components = <<"wellington", "hourly", <<"days", "3">>, <<"units", "imperial">>, <<"hours", "24">>>>
         -> "2542edf92548fb48d02f83780a95589a"
      [] key_components = <<"wellington", "hourly", <<"hours", "24">>, <<"days", "1">>, <<"units", "metric">>>>
         -> "60f0f1754698c9da26c1e8d68621345c"
      [] key_components = <<"wellington", "hourly", <<"hours", "24">>, <<"days", "1">>, <<"units", "imperial">>>>
         -> "7ba4783d4381934f039cf478a21ed81b"
      [] key_components = <<"wellington", "hourly", <<"hours", "24">>, <<"days", "3">>, <<"units", "metric">>>>
         -> "79fe47c288a1d863f891787e9869856b"
      [] key_components = <<"wellington", "hourly", <<"hours", "24">>, <<"days", "3">>, <<"units", "imperial">>>>
         -> "c4bd196c4679169c2d382e73cd99465b"
      [] key_components = <<"wellington", "hourly", <<"hours", "24">>, <<"units", "metric">>, <<"days", "1">>>>
         -> "853c57c12039b74f6239ffe82894d2ea"
      [] key_components = <<"wellington", "hourly", <<"hours", "24">>, <<"units", "metric">>, <<"days", "3">>>>
         -> "a534476185f8d0336c172987f840bdf7"
      [] key_components = <<"wellington", "hourly", <<"hours", "24">>, <<"units", "imperial">>, <<"days", "1">>>>
         -> "d49b4321b6c92b33ce72d9debe052f62"
      [] key_components = <<"wellington", "hourly", <<"hours", "24">>, <<"units", "imperial">>, <<"days", "3">>>>
         -> "de3290e71da21a7d37bf4236377a890b"
      [] key_components = <<"wellington", "hourly", <<"units", "metric">>, <<"days", "1">>, <<"hours", "24">>>>
         -> "04502856cb6fe0dc2066f3345f951cc7"
      [] key_components = <<"wellington", "hourly", <<"units", "metric">>, <<"days", "3">>, <<"hours", "24">>>>
         -> "0943a1600ac930b2f931e6a525f7c625"
      [] key_components = <<"wellington", "hourly", <<"units", "metric">>, <<"hours", "24">>, <<"days", "1">>>>
         -> "d890e457c4653cbb8be5aafb3ba23ac5"
      [] key_components = <<"wellington", "hourly", <<"units", "metric">>, <<"hours", "24">>, <<"days", "3">>>>
         -> "9adaf7c273c888d0fa0f64d605e11373"
      [] key_components = <<"wellington", "hourly", <<"units", "imperial">>, <<"days", "1">>, <<"hours", "24">>>>
         -> "1e95d3bc759fd90ae02a26e7cce72f0c"
      [] key_components = <<"wellington", "hourly", <<"units", "imperial">>, <<"days", "3">>, <<"hours", "24">>>>
         -> "83613530289d9089bf39e9ddf06daf10"
      [] key_components = <<"wellington", "hourly", <<"units", "imperial">>, <<"hours", "24">>, <<"days", "1">>>>
         -> "6bc02c4aa14bc0fbe2eb638e0cb15f2e"
      [] key_components = <<"wellington", "hourly", <<"units", "imperial">>, <<"hours", "24">>, <<"days", "3">>>>
         -> "0c3e9d32d1503e5a1e8e2e0e1a6ac096"
      [] key_components = <<"new_york", "weather">>
         -> "594aa8b6772fdd78506c7f3766967ece"
      [] key_components = <<"new_york", "weather", <<"days", "1">>>>
         -> "1f2d2f5f2c8dd4d0120a5fbf7c240f9c"
      [] key_components = <<"new_york", "weather", <<"days", "3">>>>
         -> "81c6f89264adb9ec28d3a9e3b681c9ba"
      [] key_components = <<"new_york", "weather", <<"hours", "24">>>>
         -> "385305dee6788af6b2f3c01cb169a405"
      [] key_components = <<"new_york", "weather", <<"units", "metric">>>>
         -> "f015de49078016b7b783071954c66cec"
      [] key_components = <<"new_york", "weather", <<"units", "imperial">>>>
         -> "48c443a5ba52e4e9517ba76b8f575f08"
      [] key_components = <<"new_york", "weather", <<"days", "1">>, <<"hours", "24">>>>
         -> "8ec86ee8083ba4db4dce668dbc027bc5"
      [] key_components = <<"new_york", "weather", <<"days", "1">>, <<"units", "metric">>>>
         -> "50f682ccf06cb02b96044bc10b3f6cb1"
      [] key_components = <<"new_york", "weather", <<"days", "1">>, <<"units", "imperial">>>>
         -> "ebbb1f9b6cadcaef6b1bf00270ced312"
      [] key_components = <<"new_york", "weather", <<"days", "3">>, <<"hours", "24">>>>
         -> "0bd814ef467e1fecacd537acc86906f7"
      [] key_components = <<"new_york", "weather", <<"days", "3">>, <<"units", "metric">>>>
         -> "105b7ad3814be4f258adc14ad6369280"
      [] key_components = <<"new_york", "weather", <<"days", "3">>, <<"units", "imperial">>>>
         -> "8f50cce046427d666c7ba9aeb569a873"
      [] key_components = <<"new_york", "weather", <<"hours", "24">>, <<"days", "1">>>>
         -> "9f1a74d9b3252aff24f50c76afe2f49d"
      [] key_components = <<"new_york", "weather", <<"hours", "24">>, <<"days", "3">>>>
         -> "35e364fbb67bb60c95b0dc0fca0119d2"
      [] key_components = <<"new_york", "weather", <<"hours", "24">>, <<"units", "metric">>>>
         -> "8327454f31e13edbcb1f4ea3ab6f17f6"
      [] key_components = <<"new_york", "weather", <<"hours", "24">>, <<"units", "imperial">>>>
         -> "4596617a39dd8c2b380f960c6b47d6d9"
      [] key_components = <<"new_york", "weather", <<"units", "metric">>, <<"days", "1">>>>
         -> "7af5c05b60d07c7895bf14bbd1ffb1b9"
      [] key_components = <<"new_york", "weather", <<"units", "metric">>, <<"days", "3">>>>
         -> "3cb21b18bf22c7da6ff8c5bb330d128d"
      [] key_components = <<"new_york", "weather", <<"units", "metric">>, <<"hours", "24">>>>
         -> "093d2bc74f089a3947a8eec29331ae2f"
      [] key_components = <<"new_york", "weather", <<"units", "imperial">>, <<"days", "1">>>>
         -> "b9742710b2f97b2de9b538770c827250"
      [] key_components = <<"new_york", "weather", <<"units", "imperial">>, <<"days", "3">>>>
         -> "cf6833d45c8a5b44149c29f8635ec3c1"
      [] key_components = <<"new_york", "weather", <<"units", "imperial">>, <<"hours", "24">>>>
         -> "3177c4baafdbedcbb0d78d6f3ba7e844"
      [] key_components = <<"new_york", "weather", <<"days", "1">>, <<"hours", "24">>, <<"units", "metric">>>>
         -> "05926eaa5d1fdcf3b1cc50e581b70cb2"
      [] key_components = <<"new_york", "weather", <<"days", "1">>, <<"hours", "24">>, <<"units", "imperial">>>>
         -> "fca9022ff992fe173db012c9db460a4a"
      [] key_components = <<"new_york", "weather", <<"days", "1">>, <<"units", "metric">>, <<"hours", "24">>>>
         -> "61083a0ca6c70837a2f710e5e49ab84a"
      [] key_components = <<"new_york", "weather", <<"days", "1">>, <<"units", "imperial">>, <<"hours", "24">>>>
         -> "0ddf65e16fa4d1b61595d1836f88942f"
      [] key_components = <<"new_york", "weather", <<"days", "3">>, <<"hours", "24">>, <<"units", "metric">>>>
         -> "3866368c9a37d35a12a1dfcc73bfa06e"
      [] key_components = <<"new_york", "weather", <<"days", "3">>, <<"hours", "24">>, <<"units", "imperial">>>>
         -> "63941a873b330173893b09d42c30578c"
      [] key_components = <<"new_york", "weather", <<"days", "3">>, <<"units", "metric">>, <<"hours", "24">>>>
         -> "71d5b427d650cbd93001d09fd158649c"
      [] key_components = <<"new_york", "weather", <<"days", "3">>, <<"units", "imperial">>, <<"hours", "24">>>>
         -> "8915b9c49a7dd2be4ae99141aae31b95"
      [] key_components = <<"new_york", "weather", <<"hours", "24">>, <<"days", "1">>, <<"units", "metric">>>>
         -> "17187b713825b402a7744102d5b303aa"
      [] key_components = <<"new_york", "weather", <<"hours", "24">>, <<"days", "1">>, <<"units", "imperial">>>>
         -> "637111f7e35a004e5afdf953185216bb"
      [] key_components = <<"new_york", "weather", <<"hours", "24">>, <<"days", "3">>, <<"units", "metric">>>>
         -> "b03ac80414f26195a9563833a49daf82"
      [] key_components = <<"new_york", "weather", <<"hours", "24">>, <<"days", "3">>, <<"units", "imperial">>>>
         -> "51e62bb05a2734b2bfbf31993011d6d9"
      [] key_components = <<"new_york", "weather", <<"hours", "24">>, <<"units", "metric">>, <<"days", "1">>>>
         -> "de2fd97815d438dec52ec500774ac79e"
      [] key_components = <<"new_york", "weather", <<"hours", "24">>, <<"units", "metric">>, <<"days", "3">>>>
         -> "8c5639ee8f18baae746d7b325a19f809"
      [] key_components = <<"new_york", "weather", <<"hours", "24">>, <<"units", "imperial">>, <<"days", "1">>>>
         -> "d4fea58318b29cb6ba2f0a4828c0fdce"
      [] key_components = <<"new_york", "weather", <<"hours", "24">>, <<"units", "imperial">>, <<"days", "3">>>>
         -> "d9a17a588b77bb625b9ce630beba9fe8"
      [] key_components = <<"new_york", "weather", <<"units", "metric">>, <<"days", "1">>, <<"hours", "24">>>>
         -> "0d2079c20a9a0c8dd5ef2dd5a1cbed58"
      [] key_components = <<"new_york", "weather", <<"units", "metric">>, <<"days", "3">>, <<"hours", "24">>>>
         -> "90ca00c7ac7dc9eb7d4c3372e6b2f62a"
      [] key_components = <<"new_york", "weather", <<"units", "metric">>, <<"hours", "24">>, <<"days", "1">>>>
         -> "62e45b5d30bba0559c5a21d1e286d9d1"
      [] key_components = <<"new_york", "weather", <<"units", "metric">>, <<"hours", "24">>, <<"days", "3">>>>
         -> "961aecee92556607a7c876f1d6ad3076"
      [] key_components = <<"new_york", "weather", <<"units", "imperial">>, <<"days", "1">>, <<"hours", "24">>>>
         -> "c9dea04064ea0e3f1f905e03f0c1e157"
      [] key_components = <<"new_york", "weather", <<"units", "imperial">>, <<"days", "3">>, <<"hours", "24">>>>
         -> "5a347c859868a57c28cd8a3f85700674"
      [] key_components = <<"new_york", "weather", <<"units", "imperial">>, <<"hours", "24">>, <<"days", "1">>>>
         -> "f5130248cc74896269bbf1595c4f5b47"
      [] key_components = <<"new_york", "weather", <<"units", "imperial">>, <<"hours", "24">>, <<"days", "3">>>>
         -> "d2e37f2fc72ac0ba3a396583a0e82ef9"
      [] key_components = <<"new_york", "forecast">>
         -> "63e4d88edc43d7bc4365905dee5bb327"
      [] key_components = <<"new_york", "forecast", <<"days", "1">>>>
         -> "47c6819e1f9ef26aa3f864d72006f4fd"
      [] key_components = <<"new_york", "forecast", <<"days", "3">>>>
         -> "233850aedf6c5f2a75b0920709687acd"
      [] key_components = <<"new_york", "forecast", <<"hours", "24">>>>
         -> "3dbd77d6dc078d9054784465e80d3c18"
      [] key_components = <<"new_york", "forecast", <<"units", "metric">>>>
         -> "d9206d12f0c5a373ddff5e18b82b66c2"
      [] key_components = <<"new_york", "forecast", <<"units", "imperial">>>>
         -> "9fa84dc2c7cdc7ad364b692e5df0bbf0"
      [] key_components = <<"new_york", "forecast", <<"days", "1">>, <<"hours", "24">>>>
         -> "29971bfc34f37cf3691387f427e050ac"
      [] key_components = <<"new_york", "forecast", <<"days", "1">>, <<"units", "metric">>>>
         -> "04a90afa55441c7ee5ef7fe11d0022ed"
      [] key_components = <<"new_york", "forecast", <<"days", "1">>, <<"units", "imperial">>>>
         -> "0aba23da2078a784f7a6e21b410e8154"
      [] key_components = <<"new_york", "forecast", <<"days", "3">>, <<"hours", "24">>>>
         -> "073e19ada02765d8ebcc0c9557c21ecb"
      [] key_components = <<"new_york", "forecast", <<"days", "3">>, <<"units", "metric">>>>
         -> "1798332ef9bddb39896f55212588b19f"
      [] key_components = <<"new_york", "forecast", <<"days", "3">>, <<"units", "imperial">>>>
         -> "5cee3770c23754316ed616a16579f231"
      [] key_components = <<"new_york", "forecast", <<"hours", "24">>, <<"days", "1">>>>
         -> "bfbf807d164ea33e5586f9e3cca5719a"
      [] key_components = <<"new_york", "forecast", <<"hours", "24">>, <<"days", "3">>>>
         -> "0927e838e33951248b08185acc10624f"
      [] key_components = <<"new_york", "forecast", <<"hours", "24">>, <<"units", "metric">>>>
         -> "e5e7fe574770de88300106eba1bbc2f4"
      [] key_components = <<"new_york", "forecast", <<"hours", "24">>, <<"units", "imperial">>>>
         -> "7bbf8878c7cc7c3b7e31147fb8ed1aa7"
      [] key_components = <<"new_york", "forecast", <<"units", "metric">>, <<"days", "1">>>>
         -> "9cb448914744f426e49db83167a95fc3"
      [] key_components = <<"new_york", "forecast", <<"units", "metric">>, <<"days", "3">>>>
         -> "130b10f21b79c77fd328b4438ff27e11"
      [] key_components = <<"new_york", "forecast", <<"units", "metric">>, <<"hours", "24">>>>
         -> "eebb58173b3d6304a573d361de800bb8"
      [] key_components = <<"new_york", "forecast", <<"units", "imperial">>, <<"days", "1">>>>
         -> "edb6d49f181edb124e0511800f28ee02"
      [] key_components = <<"new_york", "forecast", <<"units", "imperial">>, <<"days", "3">>>>
         -> "b94cc353602108f60478d671f305d747"
      [] key_components = <<"new_york", "forecast", <<"units", "imperial">>, <<"hours", "24">>>>
         -> "e88f8c6f6e507c362a326c947df80a9b"
      [] key_components = <<"new_york", "forecast", <<"days", "1">>, <<"hours", "24">>, <<"units", "metric">>>>
         -> "b8e7b7995c96695cd7c3806a28d5655f"
      [] key_components = <<"new_york", "forecast", <<"days", "1">>, <<"hours", "24">>, <<"units", "imperial">>>>
         -> "f4aa0c08f50796a15f52317758830450"
      [] key_components = <<"new_york", "forecast", <<"days", "1">>, <<"units", "metric">>, <<"hours", "24">>>>
         -> "25ba583ae1304b38e54bb7da8851e8a3"
      [] key_components = <<"new_york", "forecast", <<"days", "1">>, <<"units", "imperial">>, <<"hours", "24">>>>
         -> "394ce992028521667ca1a291aaac7d4b"
      [] key_components = <<"new_york", "forecast", <<"days", "3">>, <<"hours", "24">>, <<"units", "metric">>>>
         -> "effc003585d858325d2b2f9fda58ee71"
      [] key_components = <<"new_york", "forecast", <<"days", "3">>, <<"hours", "24">>, <<"units", "imperial">>>>
         -> "38d292d79e5a0645a10ae81a3274a7f8"
      [] key_components = <<"new_york", "forecast", <<"days", "3">>, <<"units", "metric">>, <<"hours", "24">>>>
         -> "f8b8251bc411e04d963afa56a4632470"
      [] key_components = <<"new_york", "forecast", <<"days", "3">>, <<"units", "imperial">>, <<"hours", "24">>>>
         -> "793b83252236a90c9df33e85427b3eac"
      [] key_components = <<"new_york", "forecast", <<"hours", "24">>, <<"days", "1">>, <<"units", "metric">>>>
         -> "021d4d4b1ddd5b07565f3ec4719d3a23"
      [] key_components = <<"new_york", "forecast", <<"hours", "24">>, <<"days", "1">>, <<"units", "imperial">>>>
         -> "dd3b0fe41081c983ff2ecceac4ad2ea7"
      [] key_components = <<"new_york", "forecast", <<"hours", "24">>, <<"days", "3">>, <<"units", "metric">>>>
         -> "cdcac6351ebaf45caa5e48b8255a3d4f"
      [] key_components = <<"new_york", "forecast", <<"hours", "24">>, <<"days", "3">>, <<"units", "imperial">>>>
         -> "38c5530ecb6c9d64fbea538335c3cdaa"
      [] key_components = <<"new_york", "forecast", <<"hours", "24">>, <<"units", "metric">>, <<"days", "1">>>>
         -> "c208c4c853f26a5a1c8c059cb61d1f88"
      [] key_components = <<"new_york", "forecast", <<"hours", "24">>, <<"units", "metric">>, <<"days", "3">>>>
         -> "f8c8a65ef64883297a66444caaa39e37"
      [] key_components = <<"new_york", "forecast", <<"hours", "24">>, <<"units", "imperial">>, <<"days", "1">>>>
         -> "148a030c3ee9c3209e9393446d72fb30"
      [] key_components = <<"new_york", "forecast", <<"hours", "24">>, <<"units", "imperial">>, <<"days", "3">>>>
         -> "19ec88bdbac2f7ef5d4bdc97b3c4a246"
      [] key_components = <<"new_york", "forecast", <<"units", "metric">>, <<"days", "1">>, <<"hours", "24">>>>
         -> "2f185ad3d05980fa899a6f2c41c7e8f4"
      [] key_components = <<"new_york", "forecast", <<"units", "metric">>, <<"days", "3">>, <<"hours", "24">>>>
         -> "47aa180e5a502df4ac4eaa25de016aff"
      [] key_components = <<"new_york", "forecast", <<"units", "metric">>, <<"hours", "24">>, <<"days", "1">>>>
         -> "026a7f0c6dfc6e3d2a067ead19ee17aa"
      [] key_components = <<"new_york", "forecast", <<"units", "metric">>, <<"hours", "24">>, <<"days", "3">>>>
         -> "1206a0608e098cd49dbf27c90934cb45"
      [] key_components = <<"new_york", "forecast", <<"units", "imperial">>, <<"days", "1">>, <<"hours", "24">>>>
         -> "ebf1fe231cf03be19108c5e44119494c"
      [] key_components = <<"new_york", "forecast", <<"units", "imperial">>, <<"days", "3">>, <<"hours", "24">>>>
         -> "0a962056d6584cc69b196e0904f97b87"
      [] key_components = <<"new_york", "forecast", <<"units", "imperial">>, <<"hours", "24">>, <<"days", "1">>>>
         -> "a8804b9c451bc119f37db6d72ee6a7ba"
      [] key_components = <<"new_york", "forecast", <<"units", "imperial">>, <<"hours", "24">>, <<"days", "3">>>>
         -> "b5c21fb7d7208dcad3137307891dc816"
      [] key_components = <<"new_york", "hourly">>
         -> "913eb1bbef681c05278b89c69946ae00"
      [] key_components = <<"new_york", "hourly", <<"days", "1">>>>
         -> "a05c16d6fdf3cd98fdd0f16467833e9e"
      [] key_components = <<"new_york", "hourly", <<"days", "3">>>>
         -> "b12e1aed48635c31d9b2b804896da8a8"
      [] key_components = <<"new_york", "hourly", <<"hours", "24">>>>
         -> "47f7480f6d8ac2305f121a2f4b6b0371"
      [] key_components = <<"new_york", "hourly", <<"units", "metric">>>>
         -> "46ad5da39d63497d7b1766f52c49eedf"
      [] key_components = <<"new_york", "hourly", <<"units", "imperial">>>>
         -> "634e7def6a8560f25906572494003fd6"
      [] key_components = <<"new_york", "hourly", <<"days", "1">>, <<"hours", "24">>>>
         -> "003919d347e2fdad52bfc45807a7678b"
      [] key_components = <<"new_york", "hourly", <<"days", "1">>, <<"units", "metric">>>>
         -> "6f0c6387e21663084324ed452e31ab62"
      [] key_components = <<"new_york", "hourly", <<"days", "1">>, <<"units", "imperial">>>>
         -> "3944df77664ab759768961f66e5bf681"
      [] key_components = <<"new_york", "hourly", <<"days", "3">>, <<"hours", "24">>>>
         -> "0628579722fd823d4cfa90fc1a7dde4f"
      [] key_components = <<"new_york", "hourly", <<"days", "3">>, <<"units", "metric">>>>
         -> "10ccaa7408ce0033be5b2b5182209eb7"
      [] key_components = <<"new_york", "hourly", <<"days", "3">>, <<"units", "imperial">>>>
         -> "7ca2a347d902491966d10aacbcdef972"
      [] key_components = <<"new_york", "hourly", <<"hours", "24">>, <<"days", "1">>>>
         -> "ee38148cceccc73972c7a5ba899c1cad"
      [] key_components = <<"new_york", "hourly", <<"hours", "24">>, <<"days", "3">>>>
         -> "4bdbd314fd1753479a8b3d4bc44363ad"
      [] key_components = <<"new_york", "hourly", <<"hours", "24">>, <<"units", "metric">>>>
         -> "7248d85ac1bd43de74898a18b4e07240"
      [] key_components = <<"new_york", "hourly", <<"hours", "24">>, <<"units", "imperial">>>>
         -> "d6f30f7e0cb5b41f83c64d2d02c66eb1"
      [] key_components = <<"new_york", "hourly", <<"units", "metric">>, <<"days", "1">>>>
         -> "0285844a10ad231b769f97ad07a4dbcd"
      [] key_components = <<"new_york", "hourly", <<"units", "metric">>, <<"days", "3">>>>
         -> "6649f568c708bae6fcb631bcd20f349e"
      [] key_components = <<"new_york", "hourly", <<"units", "metric">>, <<"hours", "24">>>>
         -> "d14417ad2621bd98cbca4a5f38231d60"
      [] key_components = <<"new_york", "hourly", <<"units", "imperial">>, <<"days", "1">>>>
         -> "1ffb7a4127f4d920cb99d32bd36f017e"
      [] key_components = <<"new_york", "hourly", <<"units", "imperial">>, <<"days", "3">>>>
         -> "9e6ed677304618dc4b51dd370814b822"
      [] key_components = <<"new_york", "hourly", <<"units", "imperial">>, <<"hours", "24">>>>
         -> "8506fcb6acc96a0e4d40412cae3dbbb6"
      [] key_components = <<"new_york", "hourly", <<"days", "1">>, <<"hours", "24">>, <<"units", "metric">>>>
         -> "9829f5b889c4f1b065bebab7a8819727"
      [] key_components = <<"new_york", "hourly", <<"days", "1">>, <<"hours", "24">>, <<"units", "imperial">>>>
         -> "ed2ebe1c94bcd5d53779b4c43af88ce5"
      [] key_components = <<"new_york", "hourly", <<"days", "1">>, <<"units", "metric">>, <<"hours", "24">>>>
         -> "8eefcb844aadfaed48b72e46816ad9d5"
      [] key_components = <<"new_york", "hourly", <<"days", "1">>, <<"units", "imperial">>, <<"hours", "24">>>>
         -> "717695607b474dafbef541cf7b8c2d85"
      [] key_components = <<"new_york", "hourly", <<"days", "3">>, <<"hours", "24">>, <<"units", "metric">>>>
         -> "f810ef6ba7d01376173c3c8e91507479"
      [] key_components = <<"new_york", "hourly", <<"days", "3">>, <<"hours", "24">>, <<"units", "imperial">>>>
         -> "bc566e4e6f0e62f987a1e5c54e48eba2"
      [] key_components = <<"new_york", "hourly", <<"days", "3">>, <<"units", "metric">>, <<"hours", "24">>>>
         -> "9451b5468374075364e99a52738edf0f"
      [] key_components = <<"new_york", "hourly", <<"days", "3">>, <<"units", "imperial">>, <<"hours", "24">>>>
         -> "2c8c7c7488e3b75fd961d7b7eb467c8b"
      [] key_components = <<"new_york", "hourly", <<"hours", "24">>, <<"days", "1">>, <<"units", "metric">>>>
         -> "c263d845310201811a7dac75f533cb06"
      [] key_components = <<"new_york", "hourly", <<"hours", "24">>, <<"days", "1">>, <<"units", "imperial">>>>
         -> "064746b136a1844cf227593835d816f7"
      [] key_components = <<"new_york", "hourly", <<"hours", "24">>, <<"days", "3">>, <<"units", "metric">>>>
         -> "9befa17f3750fc8af03d8afdddea95a1"
      [] key_components = <<"new_york", "hourly", <<"hours", "24">>, <<"days", "3">>, <<"units", "imperial">>>>
         -> "cb2acc0c515c1c9fabab6cb86832176e"
      [] key_components = <<"new_york", "hourly", <<"hours", "24">>, <<"units", "metric">>, <<"days", "1">>>>
         -> "669c367deedc37355eca9ec3d4cf0eac"
      [] key_components = <<"new_york", "hourly", <<"hours", "24">>, <<"units", "metric">>, <<"days", "3">>>>
         -> "ec8e921009cb8cb43ff94257ec9cc1af"
      [] key_components = <<"new_york", "hourly", <<"hours", "24">>, <<"units", "imperial">>, <<"days", "1">>>>
         -> "68761ea43b54888693845332b45dd335"
      [] key_components = <<"new_york", "hourly", <<"hours", "24">>, <<"units", "imperial">>, <<"days", "3">>>>
         -> "f404e432c327f91ef04b553769160999"
      [] key_components = <<"new_york", "hourly", <<"units", "metric">>, <<"days", "1">>, <<"hours", "24">>>>
         -> "fbaa7b1e56e078525c563e49c6471fef"
      [] key_components = <<"new_york", "hourly", <<"units", "metric">>, <<"days", "3">>, <<"hours", "24">>>>
         -> "d027176500776fe54a48a5e870601c05"
      [] key_components = <<"new_york", "hourly", <<"units", "metric">>, <<"hours", "24">>, <<"days", "1">>>>
         -> "dd2b8f2087395ff1768a94a6fdbda13a"
      [] key_components = <<"new_york", "hourly", <<"units", "metric">>, <<"hours", "24">>, <<"days", "3">>>>
         -> "ee5362d182afc365e24508635051f6a7"
      [] key_components = <<"new_york", "hourly", <<"units", "imperial">>, <<"days", "1">>, <<"hours", "24">>>>
         -> "6bfbe0093a8b4e426185bb57da1ac016"
      [] key_components = <<"new_york", "hourly", <<"units", "imperial">>, <<"days", "3">>, <<"hours", "24">>>>
         -> "3d8b7ed1eddff92a3a0c899f1fd4583a"
      [] key_components = <<"new_york", "hourly", <<"units", "imperial">>, <<"hours", "24">>, <<"days", "1">>>>
         -> "d5a4328a8521c34bb54be3cb56696920"
      [] key_components = <<"new_york", "hourly", <<"units", "imperial">>, <<"hours", "24">>, <<"days", "3">>>>
         -> "4c1f6796e390e5482edbe5394e732adb"
      [] OTHER -> "00000000000000000000000000000000"

Chars(s) ==
    CASE s = "weather_cache:" ->
         <<"w", "e", "a", "t", "h", "e", "r", "_", "c", "a", "c", "h", "e", ":">>
      [] s = "london" ->
         <<"l", "o", "n", "d", "o", "n">>
      [] s = "wellington" ->
         <<"w", "e", "l", "l", "i", "n", "g", "t", "o", "n">>
      [] s = "b82eeae3343116600dd13a7604793904" ->
         <<"b", "8", "2", "e", "e", "a", "e", "3", "3", "4", "3", "1", "1", "6", "6", "0", "0", "d", "d", "1", "3", "a", "7", "6", "0", "4", "7", "9", "3", "9", "0", "4">>
      [] s = "54c7a56376688d6e0926365307d57ff7" ->
         <<"5", "4", "c", "7", "a", "5", "6", "3", "7", "6", "6", "8", "8", "d", "6", "e", "0", "9", "2", "6", "3", "6", "5", "3", "0", "7", "d", "5", "7", "f", "f", "7">>
      [] s = "08f2fa1fc3f60b2e69013a44b8889488" ->
         <<"0", "8", "f", "2", "f", "a", "1", "f", "c", "3", "f", "6", "0", "b", "2", "e", "6", "9", "0", "1", "3", "a", "4", "4", "b", "8", "8", "8", "9", "4", "8", "8">>
      [] s = "4bb0caa696eed5e4a51e9fad8c1313a2" ->
         <<"4", "b", "b", "0", "c", "a", "a", "6", "9", "6", "e", "e", "d", "5", "e", "4", "a", "5", "1", "e", "9", "f", "a", "d", "8", "c", "1", "3", "1", "3", "a", "2">>
      [] s = "9b0b6c39e092d6e200dadbfb1c511f92" ->
         <<"9", "b", "0", "b", "6", "c", "3", "9", "e", "0", "9", "2", "d", "6", "e", "2", "0", "0", "d", "a", "d", "b", "f", "b", "1", "c", "5", "1", "1", "f", "9", "2">>
      [] s = "aa9dfd4c3258d15871eb9571d8bd5274" ->
         <<"a", "a", "9", "d", "f", "d", "4", "c", "3", "2", "5", "8", "d", "1", "5", "8", "7", "1", "e", "b", "9", "5", "7", "1", "d", "8", "b", "d", "5", "2", "7", "4">>
      [] s = "1f8d7f805121f5b42937d309c5cb4416" ->
         <<"1", "f", "8", "d", "7", "f", "8", "0", "5", "1", "2", "1", "f", "5", "b", "4", "2", "9", "3", "7", "d", "3", "0", "9", "c", "5", "c", "b", "4", "4", "1", "6">>
      [] s = "1373e3a04f57f542a854c6ed49420045" ->
         <<"1", "3", "7", "3", "e", "3", "a", "0", "4", "f", "5", "7", "f", "5", "4", "2", "a", "8", "5", "4", "c", "6", "e", "d", "4", "9", "4", "2", "0", "0", "4", "5">>
      [] s = "786bda7b98437c2792c1268b0f45820f" ->
         <<"7", "8", "6", "b", "d", "a", "7", "b", "9", "8", "4", "3", "7", "c", "2", "7", "9", "2", "c", "1", "2", "6", "8", "b", "0", "f", "4", "5", "8", "2", "0", "f">>
      [] s = "2ba1e42bf972ad606cd22a255356e510" ->
         <<"2", "b", "a", "1", "e", "4", "2", "b", "f", "9", "7", "2", "a", "d", "6", "0", "6", "c", "d", "2", "2", "a", "2", "5", "5", "3", "5", "6", "e", "5", "1", "0">>
      [] s = "781287bc754a8c74beab5c26b9b15ea0" ->
         <<"7", "8", "1", "2", "8", "7", "b", "c", "7", "5", "4", "a", "8", "c", "7", "4", "b", "e", "a", "b", "5", "c", "2", "6", "b", "9", "b", "1", "5", "e", "a", "0">>
      [] s = "88c9c2e9d5fa34b9f849712a8657b37a" ->
         <<"8", "8", "c", "9", "c", "2", "e", "9", "d", "5", "f", "a", "3", "4", "b", "9", "f", "8", "4", "9", "7", "1", "2", "a", "8", "6", "5", "7", "b", "3", "7", "a">>
      [] s = "ecba700c696959b275364c5bda8233cd" ->
         <<"e", "c", "b", "a", "7", "0", "0", "c", "6", "9", "6", "9", "5", "9", "b", "2", "7", "5", "3", "6", "4", "c", "5", "b", "d", "a", "8", "2", "3", "3", "c", "d">>
      [] s = "c84ba6ad7676f9891399ad492d21ecd3" ->
         <<"c", "8", "4", "b", "a", "6", "a", "d", "7", "6", "7", "6", "f", "9", "8", "9", "1", "3", "9", "9", "a", "d", "4", "9", "2", "d", "2", "1", "e", "c", "d", "3">>
      [] s = "273a4ea194e939c2080629b9d166149a" ->
         <<"2", "7", "3", "a", "4", "e", "a", "1", "9", "4", "e", "9", "3", "9", "c", "2", "0", "8", "0", "6", "2", "9", "b", "9", "d", "1", "6", "6", "1", "4", "9", "a">>
      [] s = "300952c521888c51a6345302a6eeb0b9" ->
         <<"3", "0", "0", "9", "5", "2", "c", "5", "2", "1", "8", "8", "8", "c", "5", "1", "a", "6", "3", "4", "5", "3", "0", "2", "a", "6", "e", "e", "b", "0", "b", "9">>
      [] OTHER -> <<>>

KeyPrefix == "weather_cache:"

\* str.lower() on one ASCII character
LowerChar(c) ==
    CASE c = "L" -> "l" [] c = "W" -> "w" [] c = "E" -> "e" [] OTHER -> c

\* location.lower().strip().replace(' ', '_') of generate_cache_key
KeyLocation(location) ==
    CASE location = "London" -> "london"
      [] location = "new york" -> "new_york"
      [] OTHER -> location

\* f"{value}" for the parameter values used
Str(v) ==
    CASE v = 1 -> "1" [] v = 3 -> "3" [] v = 24 -> "24" [] OTHER -> "?"

\* CacheManager.generate_cache_key for the three call sites of the service:
\* the components are [location, data_type] followed by "key:value" for the
\* keyword arguments in sorted key order (days < hours < units).
KeyComponents(location, data_type, n, units) ==
    <<KeyLocation(location), data_type>>
      \o (IF data_type = "forecast" THEN << <<"days", Str(n)>> >> ELSE <<>>)
      \o (IF data_type = "hourly" THEN << <<"hours", Str(n)>> >> ELSE <<>>)
      \o << <<"units", units>> >>

generate_cache_key(location, data_type, n, units) ==
    <<KeyPrefix, md5_hexdigest(KeyComponents(location, data_type, n, units))>>

KeyText(cache_key) == Chars(cache_key[1]) \o Chars(cache_key[2])

\* SQLite LIKE: ASCII case-insensitive, '_' matches any one character.
LikeChar(p, c) == p = "_" \/ LowerChar(p) = LowerChar(c)

MatchAt(text, pat, i) ==
    /\ i + Len(pat) - 1 <= Len(text)
    /\ \A j \in 1..Len(pat) : LikeChar(pat[j], text[i + j - 1])

\* text LIKE '%pat%'
LikeContains(text, pat) == \E i \in 1..(Len(text) + 1) : MatchAt(text, pat, i)

\* text LIKE 'pat%'
LikePrefix(text, pat) == MatchAt(text, pat, 1)

\* location[:2]
Prefix2(chars) == SubSeq(chars, 1, IF Len(chars) < 2 THEN Len(chars) ELSE 2)

\* ----------------------------------------------------------------------
\* Errors.  An exception is [cls, origin, msg]; msg is the set of the
\* substrings str(e).lower() contains among those the service looks for.
\* ----------------------------------------------------------------------
StatusStr(status) ==
    CASE status = 400 -> "400" [] status = 401 -> "401" [] status = 403 -> "403"
      [] status = 404 -> "404" [] status = 429 -> "429" [] status = 500 -> "500"
      [] status = 502 -> "502" [] status = 503 -> "503" [] OTHER -> "other-status"

\* What the upstream does with one request.  text: the substrings of
\* interest that occur in the provider's error body / the client exception.
Responses ==
    [type : {"http"}, status : {400, 401, 404, 503}, text : {{}}]
      \cup {[type |-> "timeout", status |-> 0, text |-> {}],
            [type |-> "crash", status |-> 0, text |-> {}]}

\* WeatherAPIClient._make_request: the exception raised for a response.
\* The fixed messages are Chinese texts that hold none of the substrings.
make_request_error(resp) ==
    IF resp.type = "http" THEN
        IF resp.status = 401 THEN [cls |-> "APIError", origin |-> "http401", msg |-> {}]
        ELSE IF resp.status = 404 THEN [cls |-> "APIError", origin |-> "http404", msg |-> {}]
        ELSE IF resp.status = 429 THEN [cls |-> "APIError", origin |-> "http429", msg |-> {}]
        ELSE IF resp.status >= 500 THEN
            [cls |-> "APIError", origin |-> "http5xx", msg |-> {StatusStr(resp.status)}]
        ELSE [cls |-> "APIError",
              origin |-> IF resp.status = 400 THEN "http400"
                         ELSE IF resp.status = 403 THEN "http403" ELSE "http_other",
              msg |-> {StatusStr(resp.status)} \cup resp.text]
    ELSE IF resp.type = "client_error" THEN
        [cls |-> "APIError", origin |-> "network", msg |-> resp.text]
    ELSE IF resp.type = "timeout" THEN
        [cls |-> "APIError", origin |-> "timeout", msg |-> {}]
    ELSE [cls |-> "Exception", origin |-> "crash", msg |-> resp.text]

\* CircuitBreaker.call, line 61
BreakerOpenError == [cls |-> "APIError", origin |-> "breaker_open", msg |-> {}]

\* ----------------------------------------------------------------------
\* CircuitBreaker.  A breaker is [state, failure_count, last_failure_time].
\* ----------------------------------------------------------------------
should_attempt_reset(cb, t) ==
    IF cb.last_failure_time = NoTime THEN TRUE
    ELSE (t - cb.last_failure_time) > recovery_timeout

\* _on_success without the counter reset
on_success_state_only(cb) == [cb EXCEPT !.state = "CLOSED"]

\* _on_success without the state reset
on_success_count_only(cb) == [cb EXCEPT !.failure_count = 0]

on_success(cb) == [cb EXCEPT !.failure_count = 0, !.state = "CLOSED"]

\* _on_failure that opens a CLOSED breaker only
on_failure_closed_only(cb, t) ==
    LET c == cb.failure_count + 1 IN
    [state |-> IF c >= failure_threshold /\ cb.state = "CLOSED" THEN "OPEN" ELSE cb.state,
     failure_count |-> c,
     last_failure_time |-> t]

\* _on_failure opening one failure late
on_failure_above(cb, t) ==
    LET c == cb.failure_count + 1 IN
    [state |-> IF c > failure_threshold THEN "OPEN" ELSE cb.state,
     failure_count |-> c,
     last_failure_time |-> t]

\* _on_failure that does not record the time of the failure
on_failure_untimed(cb, t) ==
    LET c == cb.failure_count + 1 IN
    [state |-> IF c >= failure_threshold THEN "OPEN" ELSE cb.state,
     failure_count |-> c,
     last_failure_time |-> cb.last_failure_time]

on_failure(cb, t) ==
    LET c == cb.failure_count + 1 IN
    [state |-> IF c >= failure_threshold THEN "OPEN" ELSE cb.state,
     failure_count |-> c,
     last_failure_time |-> t]

\* CircuitBreaker.call up to the invocation of func: whether func is
\* invoked, and the breaker afterwards.
call_admit(cb, t) ==
    IF cb.state = "OPEN" THEN
        IF should_attempt_reset(cb, t)
        THEN [invoke |-> TRUE, cb |-> [cb EXCEPT !.state = "HALF_OPEN"]]
        ELSE [invoke |-> FALSE, cb |-> cb]
    ELSE [invoke |-> TRUE, cb |-> cb]

\* ----------------------------------------------------------------------
\* Retry policy: _handle_api_error_with_retry
\* ----------------------------------------------------------------------
non_retryable_errors ==
    {"invalid", "404", "not found", "unauthorized", "401", "forbidden", "403",
     "bad request", "400", "quota", "limit exceeded", "api key"}

\* a policy that also gives up on a message without any keyword
IsNonRetryableOrBlank(msg) == msg \cap non_retryable_errors # {} \/ msg = {}

IsNonRetryable(msg) == msg \cap non_retryable_errors # {}

\* Delays are in quarter seconds; retry_delay starts at 1.0 s.
Quarters(seconds) == 4 * seconds

actual_delay(msg, retry_delay) ==
    IF msg \cap {"rate limit", "429"} # {} THEN retry_delay * 3
    ELSE IF msg \cap {"timeout", "network"} # {} THEN retry_delay
    ELSE IF msg \cap {"500", "502", "503"} # {} THEN retry_delay * 2
    ELSE retry_delay

\* retry_delay *= 1.5
next_retry_delay(retry_delay) == (retry_delay * 3) \div 2

\* ----------------------------------------------------------------------
\* Location service and user preferences (collaborators)
\* ----------------------------------------------------------------------
Users == {"alice", "bob"}

\* UserPreferences.get_user_preferences(user_id).units
UserUnits(user_id) == IF user_id = "alice" THEN "metric" ELSE "imperial"

RawLocations == {"london", "wellington", ""}

\* LocationService.parse_location: <<name>>, or <<>> for LocationError
\* (empty or blank input).  Other input is stripped, loses a trailing
\* "city", and goes through the alias table; a name that is none of
\* these comes back as it is.
parse_location(location_input) ==
    CASE location_input = "" -> <<>>
      [] location_input = " " -> <<>>
      [] location_input = " london " -> <<"london">>
      [] location_input = "london city" -> <<"london">>
      [] location_input = "nyc" -> <<"new york">>
      [] OTHER -> <<location_input>>

\* LocationService.suggest_corrections: no suggestion for an empty or
\* blank input, the inputs parse_location refuses
suggest_corrections(invalid_location) ==
    CASE invalid_location = "" -> <<>>
      [] invalid_location = " " -> <<>>
      [] invalid_location = "londn" -> <<"london">>
      [] OTHER -> <<>>

\* ----------------------------------------------------------------------
\* Domain records (models.py) and the sanitizer
\* ----------------------------------------------------------------------
\* WeatherData.__post_init__
WeatherDataPostInitOk(d) ==
    /\ 0 <= d.humidity /\ d.humidity <= 100
    /\ ~(d.wind_speed < 0)
    /\ 0 <= d.wind_direction /\ d.wind_direction <= 360

\* str.strip()
Strip(s) == CASE s = " mist " -> "mist" [] s = " " -> "" [] OTHER -> s

validate_weather_data(d) ==
    IF ~(0 - 100 <= d.temperature /\ d.temperature <= 60) THEN FALSE
    ELSE IF ~(0 <= d.humidity /\ d.humidity <= 100) THEN FALSE
    ELSE IF d.wind_speed < 0 \/ d.wind_speed > 500 THEN FALSE
    ELSE IF ~(800 <= d.pressure /\ d.pressure <= 1100) THEN FALSE
    ELSE IF d.location = "" \/ d.condition = <<>> \/ d.condition = <<"">> THEN FALSE
    ELSE TRUE

Clamp(x, lo, hi) == IF x < lo THEN lo ELSE IF x > hi THEN hi ELSE x

\* a sanitizer that turns the wind direction by half a circle
sanitize_turning(d) ==
    [d EXCEPT !.temperature = Clamp(@, 0 - 100, 60),
              !.humidity = Clamp(@, 0, 100),
              !.wind_speed = Clamp(@, 0, 500),
              !.pressure = Clamp(@, 800, 1100),
              !.wind_direction = (@ + 180) % 360,
              !.location = Strip(@),
              !.condition = [i \in DOMAIN @ |-> IF i = Len(@) THEN Strip(@[i]) ELSE @[i]]]

sanitize_weather_data(d) ==
    [d EXCEPT !.temperature = Clamp(@, 0 - 100, 60),
              !.humidity = Clamp(@, 0, 100),
              !.wind_speed = Clamp(@, 0, 500),
              !.pressure = Clamp(@, 800, 1100),
              !.wind_direction = @ % 360,
              !.location = Strip(@),
              !.condition = [i \in DOMAIN @ |-> IF i = Len(@) THEN Strip(@[i]) ELSE @[i]]]

\* ----------------------------------------------------------------------
\* CacheManager: the table weather_cache as a set of rows
\* [cache_key, data_type, location, data, created_at, expires_at,
\*  access_count, last_accessed]; cache_key is the primary key.
\* ----------------------------------------------------------------------
HasCondition(data) == "condition" \in DOMAIN data

\* WeatherData.from_dict / ForecastData.from_dict: <<record>>, or <<>> when
\* the constructor raises ValueError
from_dict(data) ==
    IF HasCondition(data) /\ ~WeatherDataPostInitOk(data) THEN <<>> ELSE <<data>>

\* a lookup that serves an entry whatever its expires_at
get_cached_expired_served(enabled, rows, cache_key, data_type, t) ==
    LET found == {x \in rows : x.cache_key = cache_key /\ x.data_type = data_type} IN
    IF ~enabled \/ found = {} THEN [status |-> "miss", data |-> <<>>, rows |-> rows]
    ELSE LET row == CHOOSE x \in found : TRUE IN
         [status |-> "hit", data |-> from_dict(row.data),
          rows |-> (rows \ {row}) \cup
                   {[row EXCEPT !.access_count = @ + 1, !.last_accessed = t]}]

\* a lookup that reports an expired entry as a miss and leaves it stored
get_cached_expired_kept(enabled, rows, cache_key, data_type, t) ==
    LET found == {x \in rows : x.cache_key = cache_key /\ x.data_type = data_type} IN
    IF ~enabled \/ found = {} THEN [status |-> "miss", data |-> <<>>, rows |-> rows]
    ELSE LET row == CHOOSE x \in found : TRUE IN
         IF t > row.expires_at THEN [status |-> "miss", data |-> <<>>, rows |-> rows]
         ELSE [status |-> "hit", data |-> from_dict(row.data),
               rows |-> (rows \ {row}) \cup
                        {[row EXCEPT !.access_count = @ + 1, !.last_accessed = t]}]

\* a lookup that never serves an entry
get_cached_never(enabled, rows, cache_key, data_type, t) ==
    [status |-> "miss", data |-> <<>>, rows |-> rows]

\* get_cached_weather / get_cached_forecast (data_type fixed by the method)
get_cached(enabled, rows, cache_key, data_type, t) ==
    LET found == {x \in rows : x.cache_key = cache_key /\ x.data_type = data_type} IN
    IF ~enabled THEN [status |-> "miss", data |-> <<>>, rows |-> rows]
    ELSE IF found = {} THEN [status |-> "miss", data |-> <<>>, rows |-> rows]
    ELSE LET row == CHOOSE x \in found : TRUE IN
         IF t > row.expires_at THEN
             [status |-> "miss", data |-> <<>>,
              rows |-> {x \in rows : x.cache_key # cache_key}]
         ELSE
             [status |-> IF from_dict(row.data) = <<>> THEN "error" ELSE "hit",
              data |-> from_dict(row.data),
              rows |-> (rows \ {row}) \cup
                       {[row EXCEPT !.access_count = @ + 1, !.last_accessed = t]}]

\* a write that gives every entry the TTL of current weather
cache_data_one_ttl(enabled, rows, cache_key, data_type, data, ttl, t) ==
    IF ~enabled THEN rows
    ELSE {x \in rows : x.cache_key # cache_key} \cup
         {[cache_key |-> cache_key, data_type |-> data_type,
           location |-> data.location, data |-> data,
           created_at |-> t, expires_at |-> t + cache_ttl_current,
           access_count |-> 0, last_accessed |-> t]}

\* cache_weather_data / cache_forecast_data: INSERT OR REPLACE
cache_data(enabled, rows, cache_key, data_type, data, ttl, t) ==
    IF ~enabled THEN rows
    ELSE {x \in rows : x.cache_key # cache_key} \cup
         {[cache_key |-> cache_key, data_type |-> data_type,
           location |-> data.location, data |-> data,
           created_at |-> t, expires_at |-> t + ttl,
           access_count |-> 0, last_accessed |-> t]}

\* ORDER BY created_at DESC LIMIT 1: the rows SQLite may return
Newest(found) == {x \in found : \A y \in found : y.created_at <= x.created_at}

\* WeatherService._get_stale_cache_data: the possible results, each <<>>
\* (None) or <<record>>.  The query ignores expires_at.
get_stale_cache_data(rows, cache_key, data_type) ==
    LET found == {x \in rows : x.cache_key = cache_key /\ x.data_type = data_type} IN
    IF found = {} \/ data_type \notin {"weather", "forecast"} THEN {<<>>}
    ELSE {from_dict(x.data) : x \in Newest(found)}

SimilarRows(rows, location, data_type, t, byPrefix) ==
    {x \in rows :
        /\ IF byPrefix THEN LikePrefix(KeyText(x.cache_key), Prefix2(Chars(location)))
                       ELSE LikeContains(KeyText(x.cache_key), Chars(location))
        /\ x.data_type = data_type
        /\ x.created_at > t - SimilarWindow}

\* WeatherService._get_similar_location_cache: the possible results
get_similar_location_cache(rows, location, data_type, t) ==
    LET first == SimilarRows(rows, location, data_type, t, FALSE)
        second == SimilarRows(rows, location, data_type, t, TRUE)
        found == IF first # {} THEN first ELSE second
    IN IF found = {} \/ data_type \notin {"weather", "forecast"} THEN {<<>>}
       ELSE {IF from_dict(x.data) = <<>> THEN <<>>
             ELSE <<[x.data EXCEPT !.location = location]>> : x \in Newest(found)}

CachedTag == "[cached-data] "
SimilarTag == "[similar-location] "

\* stale_data.condition = f"[...] {stale_data.condition}" when the record
\* has a condition attribute
Tagged(data, tag) ==
    IF HasCondition(data) THEN [data EXCEPT !.condition = <<tag>> \o @] ELSE data

\* a degradation that looks for a similar location first
fallback_similar_first(rows, location, user_id, data_type, n, t) ==
    LET units == UserUnits(user_id)
        name == parse_location(location)
    IN IF name = <<>> THEN {[path |-> "none", data |-> <<>>]}
       ELSE LET cache_key == generate_cache_key(name[1], data_type, n, units) IN
            UNION {IF similar # <<>>
                   THEN {[path |-> "similar", data |-> <<Tagged(similar[1], SimilarTag)>>]}
                   ELSE {IF stale # <<>>
                         THEN [path |-> "stale", data |-> <<Tagged(stale[1], CachedTag)>>]
                         ELSE [path |-> "none", data |-> <<>>]
                         : stale \in get_stale_cache_data(rows, cache_key, data_type)}
                   : similar \in get_similar_location_cache(rows, name[1], data_type, t)}

\* WeatherService._fallback_to_stale_cache: the possible results
\* [path, data]; data = <<>> is None.
fallback_to_stale_cache(rows, location, user_id, data_type, n, t) ==
    LET units == UserUnits(user_id)
        name == parse_location(location)
    IN IF name = <<>> THEN {[path |-> "none", data |-> <<>>]}
       ELSE LET cache_key == generate_cache_key(name[1], data_type, n, units) IN
            UNION {IF stale # <<>>
                   THEN {[path |-> "stale", data |-> <<Tagged(stale[1], CachedTag)>>]}
                   ELSE {IF similar # <<>>
                         THEN [path |-> "similar",
                               data |-> <<Tagged(similar[1], SimilarTag)>>]
                         ELSE [path |-> "none", data |-> <<>>]
                         : similar \in get_similar_location_cache(rows, name[1], data_type, t)}
                   : stale \in get_stale_cache_data(rows, cache_key, data_type)}

\* The friendly error raised by the APIError handler of a request
\* (get_current_weather lines 211-229): [cls, key, raw]; raw holds the
\* origins of the exceptions whose text the message embeds.
classify_api_error(msg) ==
    IF msg \cap {"rate limit", "429"} # {} THEN
        [cls |-> "APIError", key |-> "rate_limit", raw |-> {}]
    ELSE IF msg \cap {"not found", "404"} # {} THEN
        [cls |-> "LocationError", key |-> "location_not_found", raw |-> {}]
    ELSE IF msg \cap {"network", "timeout", "connection"} # {} THEN
        [cls |-> "APIError", key |-> "network_error", raw |-> {}]
    ELSE IF msg \cap {"unauthorized", "401"} # {} THEN
        [cls |-> "APIError", key |-> "auth_error", raw |-> {}]
    ELSE IF msg \cap {"forbidden", "403"} # {} THEN
        [cls |-> "APIError", key |-> "invalid_api_key", raw |-> {}]
    ELSE IF msg \cap {"quota", "limit exceeded"} # {} THEN
        [cls |-> "APIError", key |-> "quota_exceeded", raw |-> {}]
    ELSE IF msg \cap {"maintenance", "503"} # {} THEN
        [cls |-> "APIError", key |-> "maintenance", raw |-> {}]
    ELSE IF msg \cap {"500", "internal server"} # {} THEN
        [cls |-> "APIError", key |-> "server_error", raw |-> {}]
    ELSE [cls |-> "APIError", key |-> "api_unavailable", raw |-> {}]

\* ----------------------------------------------------------------------
\* Provider payloads and their conversion
\* ----------------------------------------------------------------------
\* Current-weather payloads (OpenWeatherMap shape): complete = all the
\* fields the conversion reads are present.
CurrentPayloads ==
    {[complete |-> TRUE, temp |-> 25, humidity |-> 60, wind_speed |-> 3,
      wind_deg |-> 180, pressure |-> 1013, description |-> "clear"],
     [complete |-> TRUE, temp |-> 70, humidity |-> 60, wind_speed |-> 3,
      wind_deg |-> 180, pressure |-> 1013, description |-> "clear"],
     [complete |-> TRUE, temp |-> 25, humidity |-> 150, wind_speed |-> 3,
      wind_deg |-> 180, pressure |-> 1013, description |-> "clear"],
     [complete |-> FALSE, temp |-> 0, humidity |-> 0, wind_speed |-> 0,
      wind_deg |-> 0, pressure |-> 0, description |-> ""]}

\* Forecast payloads: dates = number of calendar dates the entries cover.
ForecastPayloads == {[complete |-> TRUE, dates |-> 4], [complete |-> FALSE, dates |-> 0]}

HourlyPayloads == {[complete |-> TRUE, entries |-> 40], [complete |-> FALSE, entries |-> 0]}

Min(a, b) == IF a < b THEN a ELSE b

\* _convert_current_weather_data with _convert_openweathermap_current:
\* [data, err]; err names the exception whose text the WeatherError embeds.
convert_current_weather_data(raw_data, location, units) ==
    LET d == [location |-> location, temperature |-> raw_data.temp,
              humidity |-> raw_data.humidity, wind_speed |-> raw_data.wind_speed,
              wind_direction |-> raw_data.wind_deg, pressure |-> raw_data.pressure,
              condition |-> <<raw_data.description>>, units |-> units]
    IN IF ~raw_data.complete THEN [data |-> <<>>, err |-> <<"KeyError">>]
       ELSE IF ~WeatherDataPostInitOk(d) THEN [data |-> <<>>, err |-> <<"ValueError">>]
       ELSE [data |-> <<d>>, err |-> <<>>]

\* _convert_forecast_data: one ForecastDay per date, the first `days` dates
convert_forecast_data(raw_data, location, days, units) ==
    IF ~raw_data.complete THEN [data |-> <<>>, err |-> <<"KeyError">>]
    ELSE [data |-> <<[location |-> location,
                      days |-> [i \in 1..Min(raw_data.dates, days) |->
                                   [date |-> i, condition |-> "clear"]],
                      units |-> units]>>,
          err |-> <<>>]

\* _convert_hourly_forecast_data: raw_data['list'][:hours]
convert_hourly_forecast_data(raw_data, location, hours, units) ==
    IF ~raw_data.complete THEN [data |-> <<>>, err |-> <<"KeyError">>]
    ELSE [data |-> <<[location |-> location,
                      hours |-> Min(raw_data.entries, hours),
                      units |-> units]>>,
          err |-> <<>>]

\* ----------------------------------------------------------------------
\* State
\* ----------------------------------------------------------------------
VARIABLES
    now,                \* the clock (datetime.now()), in ticks
    state,              \* CircuitBreaker.state
    failure_count,      \* CircuitBreaker.failure_count
    last_failure_time,  \* CircuitBreaker.last_failure_time (NoTime = None)
    cache_enabled,      \* config.cache_enabled
    cache,              \* rows of the table weather_cache
    req,                \* per task: the request coroutine it runs
    last,               \* the request that returned or raised in the last step
    started,            \* number of requests started so far
    call,               \* a call of a function of the program: arguments and result
    rate_limit_tracker, \* WeatherAPIClient._rate_limit_tracker, and what was sent
    cleanup             \* the thread CacheCleanupWorker, inside cleanup_expired_cache or waiting

vars == <<now, state, failure_count, last_failure_time, cache_enabled, cache,
          req, last, started, call, rate_limit_tracker, cleanup>>

\* timedelta(minutes=1) and timedelta(days=1), in ticks of the clock of
\* the rate limiter
MinuteTicks == 2
DayTicks == 3

\* WeatherAPIClient.__init__: the tracker of a client made before the
\* midnight at `midnight`.  requests, daily_count and daily_reset are the
\* program's; first_midnight, sent (the times of the requests sent),
\* outcome (of the last _make_request) and rejected_at (the times of the
\* rejections) are kept for the properties.
NewTracker(midnight) ==
    [requests |-> <<>>, daily_count |-> 0, daily_reset |-> midnight,
     first_midnight |-> midnight, sent |-> <<>>, outcome |-> "none", rejected_at |-> {}]

\* The cleanup thread between two sweeps.  now is the time the sweep in
\* progress read; the counts are those of its cleanup_stats.
NoCleanup == [pc |-> "waiting", now |-> 0, total_before |-> 0, expired_found |-> 0,
              deleted_count |-> 0]

\* no function call under examination
NoCall == [fn |-> "none", done |-> FALSE]

NoResult == [tag |-> "none", data |-> <<>>, err |-> <<>>]

\* A task that runs no request.  Fields after `waited` are history
\* (ghost) fields the properties read; the code does not.
IdleReq ==
    [pc |-> "idle", task |-> "", kind |-> "none", location |-> "", n |-> 0, user_id |-> "alice",
     attempt |-> 0, retry_delay |-> Quarters(1), last_error |-> <<>>,
     probe |-> FALSE, waited |-> 0,
     result |-> NoResult, path |-> "none",
     calls |-> 0, invoked |-> 0, slept |-> <<>>, touched |-> {},
     expired_seen |-> <<>>, fetched |-> <<>>, rejected |-> 0]

Breaker == [state |-> state, failure_count |-> failure_count,
            last_failure_time |-> last_failure_time]

\* A world is what one run of a coroutine reads and writes:
\* [r: its request, cb: the breaker, rows: the cache table].
World(p) == [r |-> req[p], cb |-> Breaker, rows |-> cache]

Commit(p, w) ==
    /\ req' = [req EXCEPT ![p] = IF w.r.pc = "done" THEN IdleReq ELSE w.r]
    /\ last' = IF w.r.pc = "done" THEN w.r ELSE IdleReq
    /\ state' = w.cb.state
    /\ failure_count' = w.cb.failure_count
    /\ last_failure_time' = w.cb.last_failure_time
    /\ cache' = w.rows
    /\ call' = call
    /\ rate_limit_tracker' = rate_limit_tracker
    /\ cleanup' = cleanup

\* The request returns data or raises err (<<>> = no error).
Done(w, path, data, err) ==
    [w EXCEPT !.r = [@ EXCEPT !.pc = "done", !.path = path,
                              !.result = [tag |-> IF err = <<>> THEN "data" ELSE "error",
                                          data |-> data, err |-> err]]]

WrappedError(origin) == <<[cls |-> "WeatherError", key |-> "wrapped", raw |-> {origin}]>>

\* a handler that writes the degraded record it returns back to the cache
HandleAPIErrorCaching(w, e) ==
    IF w.r.kind = "hourly"
    THEN {Done(w, "api_error", <<>>, <<classify_api_error(e.msg)>>)}
    ELSE LET w1 == [w EXCEPT !.r.touched = @ \cup {"fallback"}] IN
         {IF f.data # <<>>
          THEN Done([w1 EXCEPT !.rows =
                        cache_data(cache_enabled, @,
                                   generate_cache_key(parse_location(w.r.location)[1], w.r.kind,
                                                      w.r.n, UserUnits(w.r.user_id)),
                                   w.r.kind, f.data[1], cache_ttl_current, now)],
                    f.path, f.data, <<>>)
          ELSE Done(w1, "api_error", <<>>, <<classify_api_error(e.msg)>>)
          : f \in fallback_to_stale_cache(w.rows, w.r.location, w.r.user_id,
                                          w.r.kind, w.r.n, now)}

\* except APIError as e: of get_current_weather / get_forecast (degradation,
\* then the classified error) and of get_hourly_forecast (no degradation)
HandleAPIError(w, e) ==
    IF w.r.kind = "hourly"
    THEN {Done(w, "api_error", <<>>, <<classify_api_error(e.msg)>>)}
    ELSE LET w1 == [w EXCEPT !.r.touched = @ \cup {"fallback"}] IN
         {IF f.data # <<>>
          THEN Done(w1, f.path, f.data, <<>>)
          ELSE Done(w1, "api_error", <<>>, <<classify_api_error(e.msg)>>)
          : f \in fallback_to_stale_cache(w.rows, w.r.location, w.r.user_id,
                                          w.r.kind, w.r.n, now)}

\* a retry loop that runs one iteration too many
RetryOnAPIErrorExtra(w, e) ==
    LET w1 == [w EXCEPT !.r.last_error = <<e>>] IN
    IF IsNonRetryable(e.msg) THEN HandleAPIError(w1, e)
    ELSE IF w1.r.attempt <= max_retries THEN
        {[w1 EXCEPT !.r = [@ EXCEPT !.pc = "sleeping", !.waited = 0,
                                    !.slept = Append(@, actual_delay(e.msg, w1.r.retry_delay)),
                                    !.retry_delay = next_retry_delay(@)]]}
    ELSE HandleAPIError(w1, e)

\* _handle_api_error_with_retry, the except APIError branch of one attempt
RetryOnAPIError(w, e) ==
    LET w1 == [w EXCEPT !.r.last_error = <<e>>] IN
    IF IsNonRetryable(e.msg) THEN HandleAPIError(w1, e)
    ELSE IF w1.r.attempt < max_retries THEN
        {[w1 EXCEPT !.r = [@ EXCEPT !.pc = "sleeping", !.waited = 0,
                                    !.slept = Append(@, actual_delay(e.msg, w1.r.retry_delay)),
                                    !.retry_delay = next_retry_delay(@)]]}
    ELSE HandleAPIError(w1, e)

\* A breaker whose rejection restarts the cool-down: the rejected call
\* is stamped as if it were a failure.
ApiCallPostponing(w) ==
    LET a == call_admit(w.cb, now)
        w1 == [w EXCEPT !.r.calls = @ + 1, !.r.touched = @ \cup {"breaker"}]
    IN IF a.invoke
       THEN {[w1 EXCEPT !.cb = a.cb,
                        !.r = [@ EXCEPT !.pc = "inflight", !.waited = 0,
                                        !.invoked = @ + 1,
                                        !.touched = @ \cup {"api"},
                                        !.probe = (w.cb.state = "OPEN")]]}
       ELSE RetryOnAPIError([w1 EXCEPT !.r.rejected = @ + 1,
                                       !.cb.last_failure_time = now],
                            BreakerOpenError)

\* api_call(): CircuitBreaker.call up to the HTTP request
ApiCall(w) ==
    LET a == call_admit(w.cb, now)
        w1 == [w EXCEPT !.r.calls = @ + 1, !.r.touched = @ \cup {"breaker"}]
    IN IF a.invoke
       THEN {[w1 EXCEPT !.cb = a.cb,
                        !.r = [@ EXCEPT !.pc = "inflight", !.waited = 0,
                                        !.invoked = @ + 1,
                                        !.touched = @ \cup {"api"},
                                        !.probe = (w.cb.state = "OPEN")]]}
       ELSE RetryOnAPIError([w1 EXCEPT !.r.rejected = @ + 1], BreakerOpenError)

\* The request's cache key (generate_cache_key of the normalized location)
RequestKey(r) ==
    generate_cache_key(parse_location(r.location)[1], r.kind, r.n, UserUnits(r.user_id))

\* a LocationError that falls through to `except Exception`
HandleLocationErrorWrapped(w) ==
    Done(w, "exception", <<>>, WrappedError("LocationError"))

\* except LocationError: of the three request methods
HandleLocationError(w) ==
    LET suggestions == suggest_corrections(w.r.location) IN
    Done(w, "location_error", <<>>,
         <<[cls |-> "LocationError",
            key |-> IF suggestions # <<>> THEN "did_you_mean" ELSE "cannot_resolve",
            raw |-> {}]>>)

\* The request methods from the location lookup to the first suspension.
\* get_current_weather / get_forecast: cache lookup, then the API call.
\* get_hourly_forecast: the cache key is generated but the cache is not used.
AfterValidation(w) ==
    LET r == w.r
        name == parse_location(r.location)
        w1 == [w EXCEPT !.r.touched = @ \cup {"location"}]
    IN IF name = <<>> THEN {HandleLocationError(w1)}
       ELSE LET w2 == [w1 EXCEPT !.r.touched = @ \cup {"preferences"}] IN
            IF r.kind = "hourly" THEN ApiCall(w2)
            ELSE LET cache_key == RequestKey(r)
                     old == {x \in w.rows : x.cache_key = cache_key /\ x.data_type = r.kind
                                            /\ now > x.expires_at}
                     got == get_cached(cache_enabled, w.rows, cache_key, r.kind, now)
                     w3 == [w2 EXCEPT !.rows = got.rows,
                                      !.r.touched = @ \cup {"cache"},
                                      !.r.expired_seen =
                                          IF cache_enabled /\ old # {}
                                          THEN <<(CHOOSE x \in old : TRUE).data>> ELSE <<>>]
                 IN IF got.status = "hit" THEN {Done(w3, "hit", got.data, <<>>)}
                    ELSE IF got.status = "error"
                    THEN {Done(w3, "cache_error", <<>>, WrappedError("CacheError"))}
                    ELSE ApiCall(w3)

\* a range check that lets 0 through
InvalidRangeFromNegative(kind, n) ==
    \/ kind = "forecast" /\ (n < 0 \/ n > 16)
    \/ kind = "hourly" /\ (n < 0 \/ n > 48)

\* get_forecast: days <= 0 or days > 16; get_hourly_forecast: hours <= 0 or
\* hours > 48.  The ValueError is caught by `except Exception` and re-raised
\* as WeatherError.
InvalidRange(kind, n) ==
    \/ kind = "forecast" /\ (n <= 0 \/ n > 16)
    \/ kind = "hourly" /\ (n <= 0 \/ n > 48)

BeginRequest(w) ==
    IF InvalidRange(w.r.kind, w.r.n)
    THEN {Done(w, "validation_error", <<>>, WrappedError("ValueError"))}
    ELSE AfterValidation(w)

Days == {0, 3, 17}
Hours == {0, 24, 49}

\* The calls the callers make
Requests ==
    [kind : {"weather"}, location : RawLocations, n : {0}, user_id : {"alice"}]
      \cup [kind : {"forecast"}, location : {"london"}, n : Days, user_id : {"alice"}]
      \cup [kind : {"forecast"}, location : {"wellington"}, n : {3}, user_id : {"alice"}]
      \cup [kind : {"hourly"}, location : {"london"}, n : Hours, user_id : {"alice"}]
      \cup [kind : {"forecast", "hourly"}, location : {""}, n : {3}, user_id : {"alice"}]

\* A caller awaits get_current_weather / get_forecast / get_hourly_forecast;
\* the callers make at most `limit` calls.
StartWithin(p, q, limit) ==
    /\ req[p].pc = "idle"
    /\ started < limit
    /\ started' = started + 1
    /\ LET w0 == [World(p) EXCEPT !.r = [IdleReq EXCEPT !.task = p,
                                                        !.kind = q.kind,
                                                        !.location = q.location,
                                                        !.n = q.n,
                                                        !.user_id = q.user_id]]
       IN \E w \in BeginRequest(w0) : Commit(p, w)
    /\ UNCHANGED <<now, cache_enabled>>

\* a request method that holds a lock across its awaits: it starts only
\* when no request of another task is suspended
StartSerialized(p, q) ==
    /\ \A o \in Procs \ {p} : req[o].pc \notin {"inflight", "sleeping"}
    /\ StartWithin(p, q, MaxRequests)

Start(p, q) == StartWithin(p, q, MaxRequests)

\* asyncio.sleep returns: the next iteration of the retry loop
Wake(p) ==
    /\ req[p].pc = "sleeping"
    /\ \E w \in ApiCall([World(p) EXCEPT !.r.attempt = @ + 1]) : Commit(p, w)
    /\ UNCHANGED <<now, cache_enabled, started>>

PayloadsOf(kind) ==
    IF kind = "weather" THEN CurrentPayloads
    ELSE IF kind = "forecast" THEN ForecastPayloads ELSE HourlyPayloads

\* a request that also writes the hourly forecast through to the cache
AfterFetchHourlyCached(w, raw_data) ==
    LET r == w.r
        location == parse_location(r.location)[1]
        units == UserUnits(r.user_id)
        c == IF r.kind = "weather" THEN convert_current_weather_data(raw_data, location, units)
             ELSE IF r.kind = "forecast"
             THEN convert_forecast_data(raw_data, location, r.n, units)
             ELSE convert_hourly_forecast_data(raw_data, location, r.n, units)
    IN IF c.err # <<>> THEN Done(w, "conversion_error", <<>>, WrappedError(c.err[1]))
       ELSE IF r.kind = "weather" THEN
           LET d == IF ~validate_weather_data(c.data[1])
                    THEN sanitize_weather_data(c.data[1]) ELSE c.data[1]
           IN Done([w EXCEPT !.rows = cache_data(cache_enabled, @, RequestKey(r), "weather",
                                                 d, cache_ttl_current, now)],
                   "fresh", <<d>>, <<>>)
       ELSE Done([w EXCEPT !.rows = cache_data(cache_enabled, @, RequestKey(r), r.kind,
                                               c.data[1], cache_ttl_forecast, now)],
                 "fresh", c.data, <<>>)

\* The request after a successful API call: conversion, validation and
\* sanitizing, write-through
AfterFetch(w, raw_data) ==
    LET r == w.r
        location == parse_location(r.location)[1]
        units == UserUnits(r.user_id)
        c == IF r.kind = "weather" THEN convert_current_weather_data(raw_data, location, units)
             ELSE IF r.kind = "forecast"
             THEN convert_forecast_data(raw_data, location, r.n, units)
             ELSE convert_hourly_forecast_data(raw_data, location, r.n, units)
    IN IF c.err # <<>> THEN Done(w, "conversion_error", <<>>, WrappedError(c.err[1]))
       ELSE IF r.kind = "weather" THEN
           LET d == IF ~validate_weather_data(c.data[1])
                    THEN sanitize_weather_data(c.data[1]) ELSE c.data[1]
           IN Done([w EXCEPT !.rows = cache_data(cache_enabled, @, RequestKey(r), "weather",
                                                 d, cache_ttl_current, now),
                             !.r.touched = @ \cup {"cache_write"}],
                   "fresh", <<d>>, <<>>)
       ELSE IF r.kind = "forecast" THEN
           Done([w EXCEPT !.rows = cache_data(cache_enabled, @, RequestKey(r), "forecast",
                                              c.data[1], cache_ttl_forecast, now),
                          !.r.touched = @ \cup {"cache_write"}],
                "fresh", c.data, <<>>)
       ELSE Done(w, "fresh", c.data, <<>>)

\* The HTTP request returns 200 with a payload: CircuitBreaker._on_success,
\* the retry loop returns, the request method goes on.
CompleteWith(p, raw_data) ==
    /\ req[p].pc = "inflight"
    /\ Commit(p, AfterFetch([World(p) EXCEPT !.cb = on_success(@),
                                             !.r.fetched = <<raw_data>>], raw_data))
    /\ UNCHANGED <<now, cache_enabled, started>>

\* The payload is one of the menu of the request's method.
CompleteOk(p, raw_data) ==
    /\ raw_data \in PayloadsOf(req[p].kind)
    /\ CompleteWith(p, raw_data)

\* a retry loop that catches every exception of the call
CompleteFailRetrying(p, resp) ==
    /\ req[p].pc = "inflight"
    /\ failure_count < MaxFailures
    /\ LET e == make_request_error(resp)
           w1 == [World(p) EXCEPT !.cb = on_failure(@, now)]
       IN \E w \in RetryOnAPIError(w1, e) : Commit(p, w)
    /\ UNCHANGED <<now, cache_enabled, started>>

\* The HTTP request fails: CircuitBreaker._on_failure, then the retry
\* policy (APIError) or the request's `except Exception` (anything else).
CompleteFail(p, resp) ==
    /\ req[p].pc = "inflight"
    /\ failure_count < MaxFailures
    /\ LET e == make_request_error(resp)
           w1 == [World(p) EXCEPT !.cb = on_failure(@, now)]
       IN \E w \in (IF e.cls = "APIError" THEN RetryOnAPIError(w1, e)
                    ELSE {Done([w1 EXCEPT !.r.last_error = <<e>>], "exception", <<>>,
                               WrappedError(e.origin))}) :
             Commit(p, w)
    /\ UNCHANGED <<now, cache_enabled, started>>

Suspended(p) == req[p].pc \in {"inflight", "sleeping"}

\* Time passes.  A suspended request sees at most one tick.
Tick ==
    /\ now < MaxTime
    /\ \A p \in Procs : Suspended(p) => req[p].waited = 0
    /\ now' = now + 1
    /\ req' = [p \in Procs |-> IF Suspended(p) THEN [req[p] EXCEPT !.waited = 1] ELSE req[p]]
    /\ last' = IdleReq
    /\ UNCHANGED <<state, failure_count, last_failure_time, cache_enabled, cache, started, call, rate_limit_tracker, cleanup>>

Init ==
    /\ now = 0
    /\ state = "CLOSED"
    /\ failure_count = 0
    /\ last_failure_time = NoTime
    /\ cache_enabled \in BOOLEAN
    /\ cache = {}
    /\ req = [p \in Procs |-> IdleReq]
    /\ last = IdleReq
    /\ started = 0
    /\ call = NoCall
    /\ rate_limit_tracker = NewTracker(DayTicks)
    /\ cleanup = NoCleanup

\* One caller at a time: every request method, every payload, every failure
Next ==
    \/ \E p \in Sequential, q \in Requests : Start(p, q)
    \/ \E p \in Sequential : Wake(p)
    \/ \E p \in Sequential, raw_data \in CurrentPayloads \cup ForecastPayloads \cup HourlyPayloads :
          CompleteOk(p, raw_data)
    \/ \E p \in Sequential, resp \in Responses : CompleteFail(p, resp)
    \/ Tick

Spec == Init /\ [][Next]_vars

\* Two tasks on the same event loop share the breaker and the cache.
RequestsConcurrent ==
    [kind : {"weather"}, location : {"london", "wellington"}, n : {0}, user_id : {"alice"}]

ResponsesConcurrent == {r \in Responses : r.type = "http" /\ r.status = 503}

PayloadsConcurrent == {x \in CurrentPayloads : x.complete /\ x.temp = 25 /\ x.humidity = 60}

NextConcurrent ==
    \/ \E p \in Procs, q \in RequestsConcurrent : Start(p, q)
    \/ \E p \in Procs : Wake(p)
    \/ \E p \in Procs, raw_data \in PayloadsConcurrent : CompleteOk(p, raw_data)
    \/ \E p \in Procs, resp \in ResponsesConcurrent : CompleteFail(p, resp)
    \/ Tick

SpecConcurrent == Init /\ [][NextConcurrent]_vars

\* The same two tasks within one tick of the clock: the interleavings of
\* their steps, without the passing of time.
NextInterleaved ==
    \/ \E p \in Procs, q \in RequestsConcurrent : Start(p, q)
    \/ \E p \in Procs : Wake(p)
    \/ \E p \in Procs, raw_data \in PayloadsConcurrent : CompleteOk(p, raw_data)
    \/ \E p \in Procs, resp \in ResponsesConcurrent : CompleteFail(p, resp)

SpecInterleaved == Init /\ [][NextInterleaved]_vars

\* One caller asks for the same key again and again while the upstream
\* works: every HTTP request returns 200 with a payload WeatherData accepts.
RequestsRefresh ==
    [kind : {"weather"}, location : {"london"}, n : {0}, user_id : {"alice"}]

PayloadsWorking == {x \in CurrentPayloads : x.complete /\ x.humidity <= 100}

NextRefresh ==
    \/ \E p \in Sequential, q \in RequestsRefresh : StartWithin(p, q, MaxRequests + 1)
    \/ \E p \in Sequential, raw_data \in PayloadsWorking : CompleteOk(p, raw_data)
    \/ Tick

SpecRefresh == Init /\ [][NextRefresh]_vars

\* a cancellation that the breaker counts as a failure of the call
CancelCounted(p) ==
    /\ req[p].pc = "inflight"
    /\ failure_count < MaxFailures
    /\ req' = [req EXCEPT ![p] = IdleReq]
    /\ last' = [req[p] EXCEPT !.pc = "cancelled"]
    /\ state' = on_failure(Breaker, now).state
    /\ failure_count' = on_failure(Breaker, now).failure_count
    /\ last_failure_time' = on_failure(Breaker, now).last_failure_time
    /\ UNCHANGED <<now, cache_enabled, cache, started, call, rate_limit_tracker, cleanup>>

\* The task of a request is cancelled while its HTTP request is in flight:
\* asyncio.CancelledError, a BaseException, is raised at the await and
\* passes every `except Exception` and `except APIError` on its way out, so
\* neither _on_success nor _on_failure runs and nothing is written.
Cancel(p) ==
    /\ req[p].pc = "inflight"
    /\ req' = [req EXCEPT ![p] = IdleReq]
    /\ last' = [req[p] EXCEPT !.pc = "cancelled"]
    /\ UNCHANGED <<now, state, failure_count, last_failure_time, cache_enabled, cache, started, call, rate_limit_tracker, cleanup>>

\* Two tasks whose requests may be cancelled in flight
NextCancel ==
    \/ \E p \in Procs, q \in RequestsConcurrent : StartWithin(p, q, MaxRequests + 1)
    \/ \E p \in Procs : Wake(p)
    \/ \E p \in Procs, raw_data \in PayloadsConcurrent : CompleteOk(p, raw_data)
    \/ \E p \in Procs, resp \in ResponsesConcurrent : CompleteFail(p, resp)
    \/ \E p \in Procs : Cancel(p)
    \/ Tick

SpecCancel == Init /\ [][NextCancel]_vars

\* One caller asks for the current weather of one place; the API answers
\* 200 with complete payloads whose readings lie inside, on and outside
\* the limits of the validator and of WeatherData.
PayloadsWide ==
    [complete : {TRUE}, temp : {0 - 150, 25, 70}, humidity : {60, 100, 150},
     wind_speed : {3, 600}, wind_deg : {0, 180, 360, 400},
     pressure : {500, 1013, 1200}, description : {"clear", " mist "}]

MaxFetches == 1

NextRecords ==
    \/ \E p \in Sequential, q \in RequestsRefresh : StartWithin(p, q, MaxFetches)
    \/ \E p \in Sequential, raw_data \in PayloadsWide : CompleteWith(p, raw_data)
    \/ Tick

SpecRecords == Init /\ [][NextRecords]_vars

\* One caller whose HTTP requests all fail in a way the retry policy
\* retries: rate limiting, server errors, a timeout, a connection error.
ResponsesRetried ==
    [type : {"http"}, status : {429, 503, 504}, text : {{}}]
      \cup {[type |-> "timeout", status |-> 0, text |-> {}],
            [type |-> "client_error", status |-> 0, text |-> {}]}

NextRetry ==
    \/ \E p \in Sequential, q \in RequestsRefresh : StartWithin(p, q, MaxFetches)
    \/ \E p \in Sequential : Wake(p)
    \/ \E p \in Sequential, resp \in ResponsesRetried : CompleteFail(p, resp)
    \/ Tick

SpecRetry == Init /\ [][NextRetry]_vars

\* One caller after another, two users with different units: what was
\* fetched for london stays in the cache while the requests for wellington
\* fail upstream and fall back on it.
RequestsSimilar ==
    {[kind |-> "weather", location |-> "london", n |-> 0, user_id |-> "bob"],
     [kind |-> "weather", location |-> "wellington", n |-> 0, user_id |-> "alice"],
     [kind |-> "forecast", location |-> "london", n |-> 3, user_id |-> "alice"],
     [kind |-> "forecast", location |-> "wellington", n |-> 1, user_id |-> "alice"]}

PayloadsSimilar == PayloadsConcurrent \cup {x \in ForecastPayloads : x.complete}

NextSimilar ==
    \/ \E p \in Sequential, q \in RequestsSimilar : Start(p, q)
    \/ \E p \in Sequential : Wake(p)
    \/ \E p \in Sequential, raw_data \in PayloadsSimilar : CompleteOk(p, raw_data)
    \/ \E p \in Sequential, resp \in ResponsesConcurrent : CompleteFail(p, resp)
    \/ Tick

SpecSimilar == Init /\ [][NextSimilar]_vars

\* The sweep's DELETE FROM weather_cache WHERE expires_at < ?, with the
\* comparison made inclusive
cleanup_expired_rows_inclusive(rows, t) == {x \in rows : x.expires_at <= t}

\* The rows the sweep's WHERE expires_at < ? selects.  Both sides are
\* datetime.isoformat() strings, whose order is that of the times.
cleanup_expired_rows(rows, t) == {x \in rows : x.expires_at < t}

\* cleanup_expired_cache on the thread CacheCleanupWorker, up to its
\* DELETE: the thread reads the clock and counts the rows.  The thread
\* takes no lock of the event loop, so the steps of the requests and the
\* passing of time interleave with its statements.
CleanupBegin ==
    /\ cleanup.pc = "waiting"
    /\ cleanup' = [pc |-> "deleting", now |-> now,
                   total_before |-> Cardinality(cache),
                   expired_found |-> Cardinality(cleanup_expired_rows(cache, now)),
                   deleted_count |-> 0]
    /\ last' = IdleReq
    /\ UNCHANGED <<now, state, failure_count, last_failure_time, cache_enabled, cache,
                   req, started, call, rate_limit_tracker>>

\* The DELETE and the commit of the sweep, with the time read before;
\* then the thread waits for the next sweep.
CleanupDelete ==
    /\ cleanup.pc = "deleting"
    /\ LET expired == cleanup_expired_rows(cache, cleanup.now) IN
       /\ cache' = cache \ expired
       /\ cleanup' = [cleanup EXCEPT !.pc = "waiting",
                                     !.deleted_count = Cardinality(expired)]
    /\ last' = IdleReq
    /\ UNCHANGED <<now, state, failure_count, last_failure_time, cache_enabled,
                   req, started, call, rate_limit_tracker>>

\* One caller and the cleanup thread: lookups, write-throughs, fallbacks
\* and sweeps in every order.  A sweep's DELETE that falls between the
\* SELECT and the keyed DELETE or UPDATE of a lookup has the effect of the
\* same DELETE after the lookup, so a lookup is one step.
NextSweep ==
    \/ \E p \in Sequential, q \in RequestsSimilar : Start(p, q)
    \/ \E p \in Sequential : Wake(p)
    \/ \E p \in Sequential, raw_data \in PayloadsSimilar : CompleteOk(p, raw_data)
    \/ \E p \in Sequential, resp \in ResponsesConcurrent : CompleteFail(p, resp)
    \/ Tick
    \/ CleanupBegin
    \/ CleanupDelete

SpecSweep == Init /\ [][NextSweep]_vars

\* ----------------------------------------------------------------------
\* Forecast conversion (weather_service.py 968-1056) on whole payloads
\* ----------------------------------------------------------------------
MaxItems == 2

\* calendar dates, as day numbers
Dates == {1, 2}

\* the day counts requested
DayCounts == {1, 2}

\* An entry of raw_data['list'] (OpenWeatherMap): the date of its dt, its
\* main.temp and main.humidity, and its pop times 100.
OwmItems == [date : Dates, temp : {10, 20}, humidity : {50, 150}, pop : {0, 50, 150}]

\* An entry of raw_data['forecast']['forecastday'] (WeatherAPI)
WapiItems == [date : Dates, maxtemp : {10, 20}, mintemp : {10, 20},
              avghumidity : {50, 150}, daily_chance_of_rain : {50, 150}]

SeqsUpTo(S, n) == UNION {[1..k -> S] : k \in 0..n}

MaxOf(S) == CHOOSE x \in S : \A y \in S : y <= x

MinOf(S) == CHOOSE x \in S : \A y \in S : x <= y

RECURSIVE SumOf(_)
SumOf(s) == IF s = <<>> THEN 0 ELSE Head(s) + SumOf(Tail(s))

\* sorted(keys)
RECURSIVE Sorted(_)
Sorted(S) == IF S = {} THEN <<>> ELSE <<MinOf(S)>> \o Sorted(S \ {MinOf(S)})

\* seq[:n] for n >= 0
Take(s, n) == SubSeq(s, 1, Min(n, Len(s)))

\* ForecastDay.__post_init__
ForecastDayPostInitOk(d) ==
    /\ ~(d.high_temp < d.low_temp)
    /\ 0 <= d.precipitation_chance /\ d.precipitation_chance <= 100

\* _convert_openweathermap_forecast: the entries grouped by date, the
\* first `days` dates in sorted order, one ForecastDay per date.  int()
\* of the non-negative averages is the integer quotient.
convert_openweathermap_forecast(forecast_list, days) ==
    LET date_keys == Take(Sorted({forecast_list[i].date : i \in DOMAIN forecast_list}), days)
        day_items(k) == SelectSeq(forecast_list, LAMBDA item : item.date = k)
        forecast_day(k) ==
            LET items == day_items(k)
                temps == {items[i].temp : i \in DOMAIN items}
            IN [date |-> k,
                high_temp |-> MaxOf(temps),
                low_temp |-> MinOf(temps),
                precipitation_chance |-> SumOf([i \in DOMAIN items |-> items[i].pop]) \div Len(items),
                humidity |-> SumOf([i \in DOMAIN items |-> items[i].humidity]) \div Len(items)]
        forecast_days == [i \in DOMAIN date_keys |-> forecast_day(date_keys[i])]
    IN IF \A i \in DOMAIN forecast_days : ForecastDayPostInitOk(forecast_days[i])
       THEN [ok |-> TRUE, days |-> forecast_days]
       ELSE [ok |-> FALSE, days |-> <<>>]

\* _convert_weatherapi_forecast: the first `days` entries in payload order
convert_weatherapi_forecast(forecastday, days) ==
    LET first == Take(forecastday, days)
        forecast_days == [i \in DOMAIN first |->
                             [date |-> first[i].date,
                              high_temp |-> first[i].maxtemp,
                              low_temp |-> first[i].mintemp,
                              precipitation_chance |-> first[i].daily_chance_of_rain,
                              humidity |-> first[i].avghumidity]]
    IN IF \A i \in DOMAIN forecast_days : ForecastDayPostInitOk(forecast_days[i])
       THEN [ok |-> TRUE, days |-> forecast_days]
       ELSE [ok |-> FALSE, days |-> <<>>]

\* Calls of _convert_forecast_data under either config.api_provider
ForecastCalls ==
    [fn : {"convert_forecast_data"}, done : {FALSE}, api_provider : {"openweathermap"},
     raw_data : SeqsUpTo(OwmItems, MaxItems), days : DayCounts]
      \cup [fn : {"convert_forecast_data"}, done : {FALSE}, api_provider : {"weatherapi"},
            raw_data : SeqsUpTo(WapiItems, MaxItems), days : DayCounts]

\* The state of Init with a function call to make
InitCall(calls) ==
    /\ now = 0
    /\ state = "CLOSED"
    /\ failure_count = 0
    /\ last_failure_time = NoTime
    /\ cache_enabled = TRUE
    /\ cache = {}
    /\ req = [p \in Procs |-> IdleReq]
    /\ last = IdleReq
    /\ started = 0
    /\ call \in calls
    /\ rate_limit_tracker = NewTracker(DayTicks)
    /\ cleanup = NoCleanup

\* the call returns or raises
Return(out) ==
    /\ ~call.done
    /\ call' = [fn |-> call.fn, done |-> TRUE, args |-> call, out |-> out]
    /\ UNCHANGED <<now, state, failure_count, last_failure_time, cache_enabled, cache,
                   req, last, started, rate_limit_tracker, cleanup>>

\* _convert_forecast_data
ConvertForecast ==
    /\ call.fn = "convert_forecast_data"
    /\ Return(IF call.api_provider = "openweathermap"
              THEN convert_openweathermap_forecast(call.raw_data, call.days)
              ELSE convert_weatherapi_forecast(call.raw_data, call.days))

InitForecast == InitCall(ForecastCalls)

SpecForecast == InitForecast /\ [][ConvertForecast]_vars

\* ----------------------------------------------------------------------
\* generate_cache_key (cache.py 269-296) with its keyword arguments as passed
\* ----------------------------------------------------------------------
MaxParams == 2

\* keyword arguments: <<key, f"{value}">>
Params == {<<"days", "1">>, <<"days", "3">>, <<"hours", "24">>,
           <<"units", "metric">>, <<"units", "imperial">>}

\* **kwargs in the order of the call: no key twice
Kwargs ==
    {s \in SeqsUpTo(Params, MaxParams) :
        \A i \in DOMAIN s : \A j \in DOMAIN s : i # j => s[i][1] # s[j][1]}

\* the order of the keys as strings
KeyRank(key) == CASE key = "days" -> 1 [] key = "hours" -> 2 [] key = "units" -> 3

\* for key in sorted(kwargs.keys()): the items in the order of their keys
RECURSIVE SortedItems(_)
SortedItems(items) ==
    IF items = {} THEN <<>>
    ELSE LET first == CHOOSE x \in items : \A y \in items : KeyRank(x[1]) <= KeyRank(y[1])
         IN <<first>> \o SortedItems(items \ {first})

Items(kwargs) == {kwargs[i] : i \in DOMAIN kwargs}

\* a key built from the keyword arguments in the order they were passed
generate_cache_key_unsorted(location, data_type, kwargs) ==
    <<KeyPrefix, md5_hexdigest(<<KeyLocation(location), data_type>> \o kwargs)>>

\* CacheManager.generate_cache_key(location, data_type, **kwargs)
generate_cache_key_kwargs(location, data_type, kwargs) ==
    <<KeyPrefix, md5_hexdigest(<<KeyLocation(location), data_type>> \o SortedItems(Items(kwargs)))>>

KeyInputs ==
    [location : {"london", "London", "wellington"},
     data_type : {"weather", "forecast", "hourly"},
     kwargs : Kwargs]

\* two calls of generate_cache_key
KeyCalls == [fn : {"generate_cache_key"}, done : {FALSE}, a : KeyInputs, b : KeyInputs]

GenerateKeys ==
    /\ call.fn = "generate_cache_key"
    /\ Return([a |-> generate_cache_key_kwargs(call.a.location, call.a.data_type, call.a.kwargs),
               b |-> generate_cache_key_kwargs(call.b.location, call.b.data_type, call.b.kwargs)])

InitKeys == InitCall(KeyCalls)

SpecKeys == InitKeys /\ [][GenerateKeys]_vars

\* ----------------------------------------------------------------------
\* _sanitize_weather_data (weather_service.py 806-851) applied twice
\* ----------------------------------------------------------------------
\* WeatherData objects with readings inside, on and outside the limits
\* (the fields of a dataclass can be assigned after construction)
Records ==
    [location : {"london"}, units : {"metric"},
     temperature : {0 - 150, 0 - 100, 25, 70}, humidity : {0 - 5, 60, 150},
     wind_speed : {0 - 1, 3, 600}, wind_direction : {0 - 10, 180, 360, 725},
     pressure : {500, 1013, 1200}, condition : {<<"clear">>, <<" mist ">>, <<" ">>}]

SanitizeCalls == [fn : {"sanitize_weather_data"}, done : {FALSE}, data : Records]

SanitizeTwice ==
    /\ call.fn = "sanitize_weather_data"
    /\ Return([once |-> sanitize_weather_data(call.data),
               twice |-> sanitize_weather_data(sanitize_weather_data(call.data))])

InitSanitize == InitCall(SanitizeCalls)

SpecSanitize == InitSanitize /\ [][SanitizeTwice]_vars

\* ----------------------------------------------------------------------
\* Command parser (command_parser.py): the regular expressions on a fixed
\* set of messages, and the functions around them
\* ----------------------------------------------------------------------
\* The messages.  "{U5C0F}" stands for the character U+5C0F, and so on
\* ({U5C0F}{U65F6} is the Chinese word for hour, {U9884}{U62A5} for forecast).
\* "9{4301}" stands for a run of 4301 digits 9, one more
\* than the interpreter converts with int() (sys.int_info.default_max_str_digits
\* of CPython 3.11).
Texts ==
    {"{U5C0F}{U65F6}{U9884}{U62A5} {U6210}{U90FD}",
     "{U6210}{U90FD}{U7684}{U5C0F}{U65F6}{U9884}{U62A5}",
     "{U5C0F}{U65F6}{U9884}{U62A5} {U6210}{U90FD} 12",
     "",
     "  ",
     " help ",
     "x",
     "london",
     "weather help",
     "use metric units",
     "3 day forecast london",
     "forecast london next week",
     "help london",
     "help london 5",
     "help london 99",
     "help london 12 hour",
     "help london 9{4301}",
     "help Paris",
     "help Paris 5",
     "help Paris 99",
     "help Paris 12 hour",
     "help Paris 9{4301}",
     "help",
     "help 5",
     "help 99",
     "help 12 hour",
     "help 9{4301}",
     "set location london",
     "set location london 5",
     "set location london 99",
     "set location london 12 hour",
     "set location london 9{4301}",
     "set location Paris",
     "set location Paris 5",
     "set location Paris 99",
     "set location Paris 12 hour",
     "set location Paris 9{4301}",
     "set location",
     "set location 5",
     "set location 99",
     "set location 12 hour",
     "set location 9{4301}",
     "set units metric london",
     "set units metric london 5",
     "set units metric london 99",
     "set units metric london 12 hour",
     "set units metric london 9{4301}",
     "set units metric Paris",
     "set units metric Paris 5",
     "set units metric Paris 99",
     "set units metric Paris 12 hour",
     "set units metric Paris 9{4301}",
     "set units metric",
     "set units metric 5",
     "set units metric 99",
     "set units metric 12 hour",
     "set units metric 9{4301}",
     "alert london",
     "alert london 5",
     "alert london 99",
     "alert london 12 hour",
     "alert london 9{4301}",
     "alert Paris",
     "alert Paris 5",
     "alert Paris 99",
     "alert Paris 12 hour",
     "alert Paris 9{4301}",
     "alert",
     "alert 5",
     "alert 99",
     "alert 12 hour",
     "alert 9{4301}",
     "activities for london",
     "activities for london 5",
     "activities for london 99",
     "activities for london 12 hour",
     "activities for london 9{4301}",
     "activities for Paris",
     "activities for Paris 5",
     "activities for Paris 99",
     "activities for Paris 12 hour",
     "activities for Paris 9{4301}",
     "activities for",
     "activities for 5",
     "activities for 99",
     "activities for 12 hour",
     "activities for 9{4301}",
     "hourly forecast london",
     "hourly forecast london 5",
     "hourly forecast london 99",
     "hourly forecast london 12 hour",
     "hourly forecast london 9{4301}",
     "hourly forecast Paris",
     "hourly forecast Paris 5",
     "hourly forecast Paris 99",
     "hourly forecast Paris 12 hour",
     "hourly forecast Paris 9{4301}",
     "hourly forecast",
     "hourly forecast 5",
     "hourly forecast 99",
     "hourly forecast 12 hour",
     "hourly forecast 9{4301}",
     "forecast london",
     "forecast london 5",
     "forecast london 99",
     "forecast london 12 hour",
     "forecast london 9{4301}",
     "forecast Paris",
     "forecast Paris 5",
     "forecast Paris 99",
     "forecast Paris 12 hour",
     "forecast Paris 9{4301}",
     "forecast",
     "forecast 5",
     "forecast 99",
     "forecast 12 hour",
     "forecast 9{4301}",
     "weather london",
     "weather london 5",
     "weather london 99",
     "weather london 12 hour",
     "weather london 9{4301}",
     "weather Paris",
     "weather Paris 5",
     "weather Paris 99",
     "weather Paris 12 hour",
     "weather Paris 9{4301}",
     "weather",
     "weather 5",
     "weather 99",
     "weather 12 hour",
     "weather 9{4301}",
     "tomorrow london",
     "tomorrow london 5",
     "tomorrow london 99",
     "tomorrow london 12 hour",
     "tomorrow london 9{4301}",
     "tomorrow Paris",
     "tomorrow Paris 5",
     "tomorrow Paris 99",
     "tomorrow Paris 12 hour",
     "tomorrow Paris 9{4301}",
     "tomorrow",
     "tomorrow 5",
     "tomorrow 99",
     "tomorrow 12 hour",
     "tomorrow 9{4301}",
     "what london",
     "what london 5",
     "what london 99",
     "what london 12 hour",
     "what london 9{4301}",
     "what Paris",
     "what Paris 5",
     "what Paris 99",
     "what Paris 12 hour",
     "what Paris 9{4301}",
     "what",
     "what 5",
     "what 99",
     "what 12 hour",
     "what 9{4301}",
     "set location help london",
     "set location help london 5",
     "set location help london 9{4301}",
     "hourly forecast alert london",
     "hourly forecast alert london 5",
     "hourly forecast alert london 9{4301}",
     "forecast weather london",
     "forecast weather london 5",
     "forecast weather london 9{4301}",
     "set units metric set location london",
     "set units metric set location london 5",
     "set units metric set location london 9{4301}",
     "alert activities for london",
     "alert activities for london 5",
     "alert activities for london 9{4301}",
     "activities for hourly forecast london",
     "activities for hourly forecast london 5",
     "activities for hourly forecast london 9{4301}",
     "weather forecast london",
     "weather forecast london 5",
     "weather forecast london 9{4301}",
     "set location forecast london",
     "set location forecast london 5",
     "set location forecast london 9{4301}"}

\* not message or not message.strip()
IsBlank(text) ==
    CASE text = "" -> TRUE
      [] text = "  " -> TRUE
      [] OTHER -> FALSE

\* the pattern lists with a pattern that finds a match in message.strip()
Matching(text) ==
    CASE text = "{U5C0F}{U65F6}{U9884}{U62A5} {U6210}{U90FD}" -> {"hourly", "forecast"}
      [] text = "{U6210}{U90FD}{U7684}{U5C0F}{U65F6}{U9884}{U62A5}" -> {"hourly"}
      [] text = "{U5C0F}{U65F6}{U9884}{U62A5} {U6210}{U90FD} 12" -> {"hourly", "forecast"}
      [] text = " help " -> {"help"}
      [] text = "weather help" -> {"help", "current"}
      [] text = "use metric units" -> {"set_units"}
      [] text = "3 day forecast london" -> {"forecast"}
      [] text = "forecast london next week" -> {"forecast"}
      [] text = "help london" -> {"help"}
      [] text = "help london 5" -> {"help"}
      [] text = "help london 99" -> {"help"}
      [] text = "help london 12 hour" -> {"help"}
      [] text = "help london 9{4301}" -> {"help"}
      [] text = "help Paris" -> {"help"}
      [] text = "help Paris 5" -> {"help"}
      [] text = "help Paris 99" -> {"help"}
      [] text = "help Paris 12 hour" -> {"help"}
      [] text = "help Paris 9{4301}" -> {"help"}
      [] text = "help" -> {"help"}
      [] text = "help 5" -> {"help"}
      [] text = "help 99" -> {"help"}
      [] text = "help 12 hour" -> {"help"}
      [] text = "help 9{4301}" -> {"help"}
      [] text = "set location london" -> {"set_location"}
      [] text = "set location london 5" -> {"set_location"}
      [] text = "set location london 99" -> {"set_location"}
      [] text = "set location london 12 hour" -> {"set_location"}
      [] text = "set location london 9{4301}" -> {"set_location"}
      [] text = "set location Paris" -> {"set_location"}
      [] text = "set location Paris 5" -> {"set_location"}
      [] text = "set location Paris 99" -> {"set_location"}
      [] text = "set location Paris 12 hour" -> {"set_location"}
      [] text = "set location Paris 9{4301}" -> {"set_location"}
      [] text = "set location 5" -> {"set_location"}
      [] text = "set location 99" -> {"set_location"}
      [] text = "set location 12 hour" -> {"set_location"}
      [] text = "set location 9{4301}" -> {"set_location"}
      [] text = "set units metric london" -> {"set_units"}
      [] text = "set units metric london 5" -> {"set_units"}
      [] text = "set units metric london 99" -> {"set_units"}
      [] text = "set units metric london 12 hour" -> {"set_units"}
      [] text = "set units metric london 9{4301}" -> {"set_units"}
      [] text = "set units metric Paris" -> {"set_units"}
      [] text = "set units metric Paris 5" -> {"set_units"}
      [] text = "set units metric Paris 99" -> {"set_units"}
      [] text = "set units metric Paris 12 hour" -> {"set_units"}
      [] text = "set units metric Paris 9{4301}" -> {"set_units"}
      [] text = "set units metric" -> {"set_units"}
      [] text = "set units metric 5" -> {"set_units"}
      [] text = "set units metric 99" -> {"set_units"}
      [] text = "set units metric 12 hour" -> {"set_units"}
      [] text = "set units metric 9{4301}" -> {"set_units"}
      [] text = "alert london" -> {"alerts"}
      [] text = "alert london 5" -> {"alerts"}
      [] text = "alert london 99" -> {"alerts"}
      [] text = "alert london 12 hour" -> {"alerts"}
      [] text = "alert london 9{4301}" -> {"alerts"}
      [] text = "alert Paris" -> {"alerts"}
      [] text = "alert Paris 5" -> {"alerts"}
      [] text = "alert Paris 99" -> {"alerts"}
      [] text = "alert Paris 12 hour" -> {"alerts"}
      [] text = "alert Paris 9{4301}" -> {"alerts"}
      [] text = "alert 5" -> {"alerts"}
      [] text = "alert 99" -> {"alerts"}
      [] text = "alert 12 hour" -> {"alerts"}
      [] text = "alert 9{4301}" -> {"alerts"}
      [] text = "activities for london" -> {"activities"}
      [] text = "activities for london 5" -> {"activities"}
      [] text = "activities for london 99" -> {"activities"}
      [] text = "activities for london 12 hour" -> {"activities"}
      [] text = "activities for london 9{4301}" -> {"activities"}
      [] text = "activities for Paris" -> {"activities"}
      [] text = "activities for Paris 5" -> {"activities"}
      [] text = "activities for Paris 99" -> {"activities"}
      [] text = "activities for Paris 12 hour" -> {"activities"}
      [] text = "activities for Paris 9{4301}" -> {"activities"}
      [] text = "activities for" -> {"activities"}
      [] text = "activities for 5" -> {"activities"}
      [] text = "activities for 99" -> {"activities"}
      [] text = "activities for 12 hour" -> {"activities"}
      [] text = "activities for 9{4301}" -> {"activities"}
      [] text = "hourly forecast london" -> {"hourly", "forecast"}
      [] text = "hourly forecast london 5" -> {"hourly", "forecast"}
      [] text = "hourly forecast london 99" -> {"hourly", "forecast"}
      [] text = "hourly forecast london 12 hour" -> {"hourly", "forecast"}
      [] text = "hourly forecast london 9{4301}" -> {"hourly", "forecast"}
      [] text = "hourly forecast Paris" -> {"hourly", "forecast"}
      [] text = "hourly forecast Paris 5" -> {"hourly", "forecast"}
      [] text = "hourly forecast Paris 99" -> {"hourly", "forecast"}
      [] text = "hourly forecast Paris 12 hour" -> {"hourly", "forecast"}
      [] text = "hourly forecast Paris 9{4301}" -> {"hourly", "forecast"}
      [] text = "hourly forecast" -> {"hourly"}
      [] text = "hourly forecast 5" -> {"hourly", "forecast"}
      [] text = "hourly forecast 99" -> {"hourly", "forecast"}
      [] text = "hourly forecast 12 hour" -> {"hourly", "forecast"}
      [] text = "hourly forecast 9{4301}" -> {"hourly", "forecast"}
      [] text = "forecast london" -> {"forecast"}
      [] text = "forecast london 5" -> {"forecast"}
      [] text = "forecast london 99" -> {"forecast"}
      [] text = "forecast london 12 hour" -> {"forecast"}
      [] text = "forecast london 9{4301}" -> {"forecast"}
      [] text = "forecast Paris" -> {"forecast"}
      [] text = "forecast Paris 5" -> {"forecast"}
      [] text = "forecast Paris 99" -> {"forecast"}
      [] text = "forecast Paris 12 hour" -> {"forecast"}
      [] text = "forecast Paris 9{4301}" -> {"forecast"}
      [] text = "forecast 5" -> {"forecast"}
      [] text = "forecast 99" -> {"forecast"}
      [] text = "forecast 12 hour" -> {"forecast"}
      [] text = "forecast 9{4301}" -> {"forecast"}
      [] text = "weather london" -> {"current"}
      [] text = "weather london 5" -> {"current"}
      [] text = "weather london 99" -> {"current"}
      [] text = "weather london 12 hour" -> {"current"}
      [] text = "weather london 9{4301}" -> {"current"}
      [] text = "weather Paris" -> {"current"}
      [] text = "weather Paris 5" -> {"current"}
      [] text = "weather Paris 99" -> {"current"}
      [] text = "weather Paris 12 hour" -> {"current"}
      [] text = "weather Paris 9{4301}" -> {"current"}
      [] text = "weather 5" -> {"current"}
      [] text = "weather 99" -> {"current"}
      [] text = "weather 12 hour" -> {"current"}
      [] text = "weather 9{4301}" -> {"current"}
      [] text = "set location help london" -> {"help", "set_location"}
      [] text = "set location help london 5" -> {"help", "set_location"}
      [] text = "set location help london 9{4301}" -> {"help", "set_location"}
      [] text = "hourly forecast alert london" -> {"alerts", "hourly", "forecast"}
      [] text = "hourly forecast alert london 5" -> {"alerts", "hourly", "forecast"}
      [] text = "hourly forecast alert london 9{4301}" -> {"alerts", "hourly", "forecast"}
      [] text = "forecast weather london" -> {"forecast", "current"}
      [] text = "forecast weather london 5" -> {"forecast", "current"}
      [] text = "forecast weather london 9{4301}" -> {"forecast", "current"}
      [] text = "set units metric set location london" -> {"set_location", "set_units"}
      [] text = "set units metric set location london 5" -> {"set_location", "set_units"}
      [] text = "set units metric set location london 9{4301}" -> {"set_location", "set_units"}
      [] text = "alert activities for london" -> {"alerts", "activities"}
      [] text = "alert activities for london 5" -> {"alerts", "activities"}
      [] text = "alert activities for london 9{4301}" -> {"alerts", "activities"}
      [] text = "activities for hourly forecast london" -> {"activities", "hourly", "forecast"}
      [] text = "activities for hourly forecast london 5" -> {"activities", "hourly", "forecast"}
      [] text = "activities for hourly forecast london 9{4301}" -> {"activities", "hourly", "forecast"}
      [] text = "weather forecast london" -> {"forecast", "current"}
      [] text = "weather forecast london 5" -> {"forecast", "current"}
      [] text = "weather forecast london 9{4301}" -> {"forecast", "current"}
      [] text = "set location forecast london" -> {"set_location", "forecast"}
      [] text = "set location forecast london 5" -> {"set_location", "forecast"}
      [] text = "set location forecast london 9{4301}" -> {"set_location", "forecast"}
      [] OTHER -> {}

\* CommandParser.extract_location(message.strip()): <<location>> or <<>> for None
extract_location(text) ==
    CASE text = "{U5C0F}{U65F6}{U9884}{U62A5} {U6210}{U90FD}" -> <<"{U6210}{U90FD}">>
      [] text = "{U6210}{U90FD}{U7684}{U5C0F}{U65F6}{U9884}{U62A5}" -> <<"{U6210}{U90FD}">>
      [] text = "{U5C0F}{U65F6}{U9884}{U62A5} {U6210}{U90FD} 12" -> <<"{U6210}{U90FD} 12">>
      [] text = "london" -> <<"london">>
      [] text = "weather help" -> <<"help">>
      [] text = "3 day forecast london" -> <<"london">>
      [] text = "forecast london next week" -> <<"london next week">>
      [] text = "help london" -> <<"london">>
      [] text = "help london 5" -> <<"london">>
      [] text = "help london 99" -> <<"london">>
      [] text = "help london 12 hour" -> <<"london">>
      [] text = "help london 9{4301}" -> <<"london">>
      [] text = "help Paris" -> <<"Paris">>
      [] text = "help Paris 5" -> <<"Paris">>
      [] text = "help Paris 99" -> <<"Paris">>
      [] text = "help Paris 12 hour" -> <<"Paris">>
      [] text = "help Paris 9{4301}" -> <<"Paris">>
      [] text = "set location london" -> <<"london">>
      [] text = "set location london 5" -> <<"london">>
      [] text = "set location london 99" -> <<"london">>
      [] text = "set location london 12 hour" -> <<"london">>
      [] text = "set location london 9{4301}" -> <<"london">>
      [] text = "set location Paris" -> <<"Paris">>
      [] text = "set location Paris 5" -> <<"Paris">>
      [] text = "set location Paris 99" -> <<"Paris">>
      [] text = "set location Paris 12 hour" -> <<"Paris">>
      [] text = "set location Paris 9{4301}" -> <<"Paris">>
      [] text = "set units metric london" -> <<"london">>
      [] text = "set units metric london 5" -> <<"london">>
      [] text = "set units metric london 99" -> <<"london">>
      [] text = "set units metric london 12 hour" -> <<"london">>
      [] text = "set units metric london 9{4301}" -> <<"london">>
      [] text = "set units metric Paris" -> <<"Paris">>
      [] text = "set units metric Paris 5" -> <<"Paris">>
      [] text = "set units metric Paris 99" -> <<"Paris">>
      [] text = "set units metric Paris 12 hour" -> <<"Paris">>
      [] text = "set units metric Paris 9{4301}" -> <<"Paris">>
      [] text = "alert london" -> <<"london">>
      [] text = "alert london 5" -> <<"london">>
      [] text = "alert london 99" -> <<"london">>
      [] text = "alert london 12 hour" -> <<"london">>
      [] text = "alert london 9{4301}" -> <<"london">>
      [] text = "alert Paris" -> <<"Paris">>
      [] text = "alert Paris 5" -> <<"Paris">>
      [] text = "alert Paris 99" -> <<"Paris">>
      [] text = "alert Paris 12 hour" -> <<"Paris">>
      [] text = "alert Paris 9{4301}" -> <<"Paris">>
      [] text = "activities for london" -> <<"london">>
      [] text = "activities for london 5" -> <<"london">>
      [] text = "activities for london 99" -> <<"london">>
      [] text = "activities for london 12 hour" -> <<"london">>
      [] text = "activities for london 9{4301}" -> <<"london">>
      [] text = "activities for Paris" -> <<"Paris">>
      [] text = "activities for Paris 5" -> <<"Paris">>
      [] text = "activities for Paris 99" -> <<"Paris">>
      [] text = "activities for Paris 12 hour" -> <<"Paris">>
      [] text = "activities for Paris 9{4301}" -> <<"Paris">>
      [] text = "hourly forecast london" -> <<"forecast london">>
      [] text = "hourly forecast london 5" -> <<"forecast london 5">>
      [] text = "hourly forecast london 99" -> <<"forecast london 99">>
      [] text = "hourly forecast london 12 hour" -> <<"forecast london 12 hour">>
      [] text = "hourly forecast london 9{4301}" -> <<"forecast london 9{4301}">>
      [] text = "hourly forecast Paris" -> <<"forecast Paris">>
      [] text = "hourly forecast Paris 5" -> <<"forecast Paris 5">>
      [] text = "hourly forecast Paris 99" -> <<"forecast Paris 99">>
      [] text = "hourly forecast Paris 12 hour" -> <<"forecast Paris 12 hour">>
      [] text = "hourly forecast Paris 9{4301}" -> <<"forecast Paris 9{4301}">>
      [] text = "hourly forecast 5" -> <<"forecast 5">>
      [] text = "hourly forecast 99" -> <<"forecast 99">>
      [] text = "hourly forecast 12 hour" -> <<"forecast 12 hour">>
      [] text = "hourly forecast 9{4301}" -> <<"forecast 9{4301}">>
      [] text = "forecast london" -> <<"london">>
      [] text = "forecast london 5" -> <<"london 5">>
      [] text = "forecast london 99" -> <<"london 99">>
      [] text = "forecast london 12 hour" -> <<"london 12 hour">>
      [] text = "forecast london 9{4301}" -> <<"london 9{4301}">>
      [] text = "forecast Paris" -> <<"Paris">>
      [] text = "forecast Paris 5" -> <<"Paris 5">>
      [] text = "forecast Paris 99" -> <<"Paris 99">>
      [] text = "forecast Paris 12 hour" -> <<"Paris 12 hour">>
      [] text = "forecast Paris 9{4301}" -> <<"Paris 9{4301}">>
      [] text = "forecast 99" -> <<"99">>
      [] text = "forecast 12 hour" -> <<"12 hour">>
      [] text = "forecast 9{4301}" -> <<"9{4301}">>
      [] text = "weather london" -> <<"london">>
      [] text = "weather london 5" -> <<"london 5">>
      [] text = "weather london 99" -> <<"london 99">>
      [] text = "weather london 12 hour" -> <<"london 12 hour">>
      [] text = "weather london 9{4301}" -> <<"london 9{4301}">>
      [] text = "weather Paris" -> <<"Paris">>
      [] text = "weather Paris 5" -> <<"Paris 5">>
      [] text = "weather Paris 99" -> <<"Paris 99">>
      [] text = "weather Paris 12 hour" -> <<"Paris 12 hour">>
      [] text = "weather Paris 9{4301}" -> <<"Paris 9{4301}">>
      [] text = "weather 99" -> <<"99">>
      [] text = "weather 12 hour" -> <<"12 hour">>
      [] text = "weather 9{4301}" -> <<"9{4301}">>
      [] text = "tomorrow london" -> <<"london">>
      [] text = "tomorrow london 5" -> <<"london">>
      [] text = "tomorrow london 99" -> <<"london">>
      [] text = "tomorrow london 12 hour" -> <<"london">>
      [] text = "tomorrow london 9{4301}" -> <<"london">>
      [] text = "tomorrow Paris" -> <<"Paris">>
      [] text = "tomorrow Paris 5" -> <<"Paris">>
      [] text = "tomorrow Paris 99" -> <<"Paris">>
      [] text = "tomorrow Paris 12 hour" -> <<"Paris">>
      [] text = "tomorrow Paris 9{4301}" -> <<"Paris">>
      [] text = "what london" -> <<"london">>
      [] text = "what london 5" -> <<"london">>
      [] text = "what london 99" -> <<"london">>
      [] text = "what london 12 hour" -> <<"london">>
      [] text = "what london 9{4301}" -> <<"london">>
      [] text = "what Paris" -> <<"Paris">>
      [] text = "what Paris 5" -> <<"Paris">>
      [] text = "what Paris 99" -> <<"Paris">>
      [] text = "what Paris 12 hour" -> <<"Paris">>
      [] text = "what Paris 9{4301}" -> <<"Paris">>
      [] text = "set location help london" -> <<"london">>
      [] text = "set location help london 5" -> <<"london">>
      [] text = "set location help london 9{4301}" -> <<"london">>
      [] text = "hourly forecast alert london" -> <<"forecast alert london">>
      [] text = "hourly forecast alert london 5" -> <<"forecast alert london 5">>
      [] text = "hourly forecast alert london 9{4301}" -> <<"forecast alert london 9{4301}">>
      [] text = "forecast weather london" -> <<"weather london">>
      [] text = "forecast weather london 5" -> <<"weather london 5">>
      [] text = "forecast weather london 9{4301}" -> <<"weather london 9{4301}">>
      [] text = "set units metric set location london" -> <<"london">>
      [] text = "set units metric set location london 5" -> <<"london">>
      [] text = "set units metric set location london 9{4301}" -> <<"london">>
      [] text = "alert activities for london" -> <<"london">>
      [] text = "alert activities for london 5" -> <<"london">>
      [] text = "alert activities for london 9{4301}" -> <<"london">>
      [] text = "activities for hourly forecast london" -> <<"forecast london">>
      [] text = "activities for hourly forecast london 5" -> <<"forecast london 5">>
      [] text = "activities for hourly forecast london 9{4301}" -> <<"forecast london 9{4301}">>
      [] text = "weather forecast london" -> <<"forecast london">>
      [] text = "weather forecast london 5" -> <<"forecast london 5">>
      [] text = "weather forecast london 9{4301}" -> <<"forecast london 9{4301}">>
      [] text = "set location forecast london" -> <<"london">>
      [] text = "set location forecast london 5" -> <<"london 5">>
      [] text = "set location forecast london 9{4301}" -> <<"london 9{4301}">>
      [] OTHER -> <<>>

\* CommandParser._extract_time_period
extract_time_period(text) ==
    CASE text = "forecast london next week" -> <<"next_week">>
      [] text = "tomorrow london" -> <<"tomorrow">>
      [] text = "tomorrow london 5" -> <<"tomorrow">>
      [] text = "tomorrow london 99" -> <<"tomorrow">>
      [] text = "tomorrow london 12 hour" -> <<"tomorrow">>
      [] text = "tomorrow london 9{4301}" -> <<"tomorrow">>
      [] text = "tomorrow Paris" -> <<"tomorrow">>
      [] text = "tomorrow Paris 5" -> <<"tomorrow">>
      [] text = "tomorrow Paris 99" -> <<"tomorrow">>
      [] text = "tomorrow Paris 12 hour" -> <<"tomorrow">>
      [] text = "tomorrow Paris 9{4301}" -> <<"tomorrow">>
      [] text = "tomorrow" -> <<"tomorrow">>
      [] text = "tomorrow 5" -> <<"tomorrow">>
      [] text = "tomorrow 99" -> <<"tomorrow">>
      [] text = "tomorrow 12 hour" -> <<"tomorrow">>
      [] text = "tomorrow 9{4301}" -> <<"tomorrow">>
      [] OTHER -> <<>>

\* CommandParser._extract_units
extract_units(text) ==
    CASE text = "use metric units" -> <<"metric">>
      [] text = "3 day forecast london" -> <<"metric">>
      [] text = "forecast london next week" -> <<"metric">>
      [] text = "set location london" -> <<"metric">>
      [] text = "set location london 5" -> <<"metric">>
      [] text = "set location london 99" -> <<"metric">>
      [] text = "set location london 12 hour" -> <<"metric">>
      [] text = "set location london 9{4301}" -> <<"metric">>
      [] text = "set location Paris" -> <<"metric">>
      [] text = "set location Paris 5" -> <<"metric">>
      [] text = "set location Paris 99" -> <<"metric">>
      [] text = "set location Paris 12 hour" -> <<"metric">>
      [] text = "set location Paris 9{4301}" -> <<"metric">>
      [] text = "set location" -> <<"metric">>
      [] text = "set location 5" -> <<"metric">>
      [] text = "set location 99" -> <<"metric">>
      [] text = "set location 12 hour" -> <<"metric">>
      [] text = "set location 9{4301}" -> <<"metric">>
      [] text = "set units metric london" -> <<"metric">>
      [] text = "set units metric london 5" -> <<"metric">>
      [] text = "set units metric london 99" -> <<"metric">>
      [] text = "set units metric london 12 hour" -> <<"metric">>
      [] text = "set units metric london 9{4301}" -> <<"metric">>
      [] text = "set units metric Paris" -> <<"metric">>
      [] text = "set units metric Paris 5" -> <<"metric">>
      [] text = "set units metric Paris 99" -> <<"metric">>
      [] text = "set units metric Paris 12 hour" -> <<"metric">>
      [] text = "set units metric Paris 9{4301}" -> <<"metric">>
      [] text = "set units metric" -> <<"metric">>
      [] text = "set units metric 5" -> <<"metric">>
      [] text = "set units metric 99" -> <<"metric">>
      [] text = "set units metric 12 hour" -> <<"metric">>
      [] text = "set units metric 9{4301}" -> <<"metric">>
      [] text = "activities for london" -> <<"metric">>
      [] text = "activities for london 5" -> <<"metric">>
      [] text = "activities for london 99" -> <<"metric">>
      [] text = "activities for london 12 hour" -> <<"metric">>
      [] text = "activities for london 9{4301}" -> <<"metric">>
      [] text = "activities for Paris" -> <<"metric">>
      [] text = "activities for Paris 5" -> <<"metric">>
      [] text = "activities for Paris 99" -> <<"metric">>
      [] text = "activities for Paris 12 hour" -> <<"metric">>
      [] text = "activities for Paris 9{4301}" -> <<"metric">>
      [] text = "activities for" -> <<"metric">>
      [] text = "activities for 5" -> <<"metric">>
      [] text = "activities for 99" -> <<"metric">>
      [] text = "activities for 12 hour" -> <<"metric">>
      [] text = "activities for 9{4301}" -> <<"metric">>
      [] text = "hourly forecast london" -> <<"metric">>
      [] text = "hourly forecast london 5" -> <<"metric">>
      [] text = "hourly forecast london 99" -> <<"metric">>
      [] text = "hourly forecast london 12 hour" -> <<"metric">>
      [] text = "hourly forecast london 9{4301}" -> <<"metric">>
      [] text = "hourly forecast Paris" -> <<"metric">>
      [] text = "hourly forecast Paris 5" -> <<"metric">>
      [] text = "hourly forecast Paris 99" -> <<"metric">>
      [] text = "hourly forecast Paris 12 hour" -> <<"metric">>
      [] text = "hourly forecast Paris 9{4301}" -> <<"metric">>
      [] text = "hourly forecast" -> <<"metric">>
      [] text = "hourly forecast 5" -> <<"metric">>
      [] text = "hourly forecast 99" -> <<"metric">>
      [] text = "hourly forecast 12 hour" -> <<"metric">>
      [] text = "hourly forecast 9{4301}" -> <<"metric">>
      [] text = "forecast london" -> <<"metric">>
      [] text = "forecast london 5" -> <<"metric">>
      [] text = "forecast london 99" -> <<"metric">>
      [] text = "forecast london 12 hour" -> <<"metric">>
      [] text = "forecast london 9{4301}" -> <<"metric">>
      [] text = "forecast Paris" -> <<"metric">>
      [] text = "forecast Paris 5" -> <<"metric">>
      [] text = "forecast Paris 99" -> <<"metric">>
      [] text = "forecast Paris 12 hour" -> <<"metric">>
      [] text = "forecast Paris 9{4301}" -> <<"metric">>
      [] text = "forecast" -> <<"metric">>
      [] text = "forecast 5" -> <<"metric">>
      [] text = "forecast 99" -> <<"metric">>
      [] text = "forecast 12 hour" -> <<"metric">>
      [] text = "forecast 9{4301}" -> <<"metric">>
      [] text = "set location help london" -> <<"metric">>
      [] text = "set location help london 5" -> <<"metric">>
      [] text = "set location help london 9{4301}" -> <<"metric">>
      [] text = "hourly forecast alert london" -> <<"metric">>
      [] text = "hourly forecast alert london 5" -> <<"metric">>
      [] text = "hourly forecast alert london 9{4301}" -> <<"metric">>
      [] text = "forecast weather london" -> <<"metric">>
      [] text = "forecast weather london 5" -> <<"metric">>
      [] text = "forecast weather london 9{4301}" -> <<"metric">>
      [] text = "set units metric set location london" -> <<"metric">>
      [] text = "set units metric set location london 5" -> <<"metric">>
      [] text = "set units metric set location london 9{4301}" -> <<"metric">>
      [] text = "alert activities for london" -> <<"metric">>
      [] text = "alert activities for london 5" -> <<"metric">>
      [] text = "alert activities for london 9{4301}" -> <<"metric">>
      [] text = "activities for hourly forecast london" -> <<"metric">>
      [] text = "activities for hourly forecast london 5" -> <<"metric">>
      [] text = "activities for hourly forecast london 9{4301}" -> <<"metric">>
      [] text = "weather forecast london" -> <<"metric">>
      [] text = "weather forecast london 5" -> <<"metric">>
      [] text = "weather forecast london 9{4301}" -> <<"metric">>
      [] text = "set location forecast london" -> <<"metric">>
      [] text = "set location forecast london 5" -> <<"metric">>
      [] text = "set location forecast london 9{4301}" -> <<"metric">>
      [] OTHER -> <<>>

\* _extract_forecast_days: the day count of the first time word in the text, 0 for none
DayWord(text) ==
    CASE text = "3 day forecast london" -> 3
      [] text = "forecast london next week" -> 7
      [] text = "tomorrow london" -> 1
      [] text = "tomorrow london 5" -> 1
      [] text = "tomorrow london 99" -> 1
      [] text = "tomorrow london 12 hour" -> 1
      [] text = "tomorrow london 9{4301}" -> 1
      [] text = "tomorrow Paris" -> 1
      [] text = "tomorrow Paris 5" -> 1
      [] text = "tomorrow Paris 99" -> 1
      [] text = "tomorrow Paris 12 hour" -> 1
      [] text = "tomorrow Paris 9{4301}" -> 1
      [] text = "tomorrow" -> 1
      [] text = "tomorrow 5" -> 1
      [] text = "tomorrow 99" -> 1
      [] text = "tomorrow 12 hour" -> 1
      [] text = "tomorrow 9{4301}" -> 1
      [] OTHER -> 0

\* _extract_forecast_hours: the Chinese word for hour in text or 'hour' in text.lower()
HasHour(text) ==
    CASE text = "{U5C0F}{U65F6}{U9884}{U62A5} {U6210}{U90FD}" -> TRUE
      [] text = "{U6210}{U90FD}{U7684}{U5C0F}{U65F6}{U9884}{U62A5}" -> TRUE
      [] text = "{U5C0F}{U65F6}{U9884}{U62A5} {U6210}{U90FD} 12" -> TRUE
      [] text = "help london 12 hour" -> TRUE
      [] text = "help Paris 12 hour" -> TRUE
      [] text = "help 12 hour" -> TRUE
      [] text = "set location london 12 hour" -> TRUE
      [] text = "set location Paris 12 hour" -> TRUE
      [] text = "set location 12 hour" -> TRUE
      [] text = "set units metric london 12 hour" -> TRUE
      [] text = "set units metric Paris 12 hour" -> TRUE
      [] text = "set units metric 12 hour" -> TRUE
      [] text = "alert london 12 hour" -> TRUE
      [] text = "alert Paris 12 hour" -> TRUE
      [] text = "alert 12 hour" -> TRUE
      [] text = "activities for london 12 hour" -> TRUE
      [] text = "activities for Paris 12 hour" -> TRUE
      [] text = "activities for 12 hour" -> TRUE
      [] text = "hourly forecast london" -> TRUE
      [] text = "hourly forecast london 5" -> TRUE
      [] text = "hourly forecast london 99" -> TRUE
      [] text = "hourly forecast london 12 hour" -> TRUE
      [] text = "hourly forecast london 9{4301}" -> TRUE
      [] text = "hourly forecast Paris" -> TRUE
      [] text = "hourly forecast Paris 5" -> TRUE
      [] text = "hourly forecast Paris 99" -> TRUE
      [] text = "hourly forecast Paris 12 hour" -> TRUE
      [] text = "hourly forecast Paris 9{4301}" -> TRUE
      [] text = "hourly forecast" -> TRUE
      [] text = "hourly forecast 5" -> TRUE
      [] text = "hourly forecast 99" -> TRUE
      [] text = "hourly forecast 12 hour" -> TRUE
      [] text = "hourly forecast 9{4301}" -> TRUE
      [] text = "forecast london 12 hour" -> TRUE
      [] text = "forecast Paris 12 hour" -> TRUE
      [] text = "forecast 12 hour" -> TRUE
      [] text = "weather london 12 hour" -> TRUE
      [] text = "weather Paris 12 hour" -> TRUE
      [] text = "weather 12 hour" -> TRUE
      [] text = "tomorrow london 12 hour" -> TRUE
      [] text = "tomorrow Paris 12 hour" -> TRUE
      [] text = "tomorrow 12 hour" -> TRUE
      [] text = "what london 12 hour" -> TRUE
      [] text = "what Paris 12 hour" -> TRUE
      [] text = "what 12 hour" -> TRUE
      [] text = "hourly forecast alert london" -> TRUE
      [] text = "hourly forecast alert london 5" -> TRUE
      [] text = "hourly forecast alert london 9{4301}" -> TRUE
      [] text = "activities for hourly forecast london" -> TRUE
      [] text = "activities for hourly forecast london 5" -> TRUE
      [] text = "activities for hourly forecast london 9{4301}" -> TRUE
      [] OTHER -> FALSE

\* 'hour' occurs in the text, in either case
HasHourWord(text) ==
    CASE text = "help london 12 hour" -> TRUE
      [] text = "help Paris 12 hour" -> TRUE
      [] text = "help 12 hour" -> TRUE
      [] text = "set location london 12 hour" -> TRUE
      [] text = "set location Paris 12 hour" -> TRUE
      [] text = "set location 12 hour" -> TRUE
      [] text = "set units metric london 12 hour" -> TRUE
      [] text = "set units metric Paris 12 hour" -> TRUE
      [] text = "set units metric 12 hour" -> TRUE
      [] text = "alert london 12 hour" -> TRUE
      [] text = "alert Paris 12 hour" -> TRUE
      [] text = "alert 12 hour" -> TRUE
      [] text = "activities for london 12 hour" -> TRUE
      [] text = "activities for Paris 12 hour" -> TRUE
      [] text = "activities for 12 hour" -> TRUE
      [] text = "hourly forecast london" -> TRUE
      [] text = "hourly forecast london 5" -> TRUE
      [] text = "hourly forecast london 99" -> TRUE
      [] text = "hourly forecast london 12 hour" -> TRUE
      [] text = "hourly forecast london 9{4301}" -> TRUE
      [] text = "hourly forecast Paris" -> TRUE
      [] text = "hourly forecast Paris 5" -> TRUE
      [] text = "hourly forecast Paris 99" -> TRUE
      [] text = "hourly forecast Paris 12 hour" -> TRUE
      [] text = "hourly forecast Paris 9{4301}" -> TRUE
      [] text = "hourly forecast" -> TRUE
      [] text = "hourly forecast 5" -> TRUE
      [] text = "hourly forecast 99" -> TRUE
      [] text = "hourly forecast 12 hour" -> TRUE
      [] text = "hourly forecast 9{4301}" -> TRUE
      [] text = "forecast london 12 hour" -> TRUE
      [] text = "forecast Paris 12 hour" -> TRUE
      [] text = "forecast 12 hour" -> TRUE
      [] text = "weather london 12 hour" -> TRUE
      [] text = "weather Paris 12 hour" -> TRUE
      [] text = "weather 12 hour" -> TRUE
      [] text = "tomorrow london 12 hour" -> TRUE
      [] text = "tomorrow Paris 12 hour" -> TRUE
      [] text = "tomorrow 12 hour" -> TRUE
      [] text = "what london 12 hour" -> TRUE
      [] text = "what Paris 12 hour" -> TRUE
      [] text = "what 12 hour" -> TRUE
      [] text = "hourly forecast alert london" -> TRUE
      [] text = "hourly forecast alert london 5" -> TRUE
      [] text = "hourly forecast alert london 9{4301}" -> TRUE
      [] text = "activities for hourly forecast london" -> TRUE
      [] text = "activities for hourly forecast london 5" -> TRUE
      [] text = "activities for hourly forecast london 9{4301}" -> TRUE
      [] OTHER -> FALSE

\* re.findall(r'\d+', text): per run its value (100 for anything larger) and whether it
\* has more digits than int() converts
Numbers(text) ==
    CASE text = "{U5C0F}{U65F6}{U9884}{U62A5} {U6210}{U90FD} 12" -> <<[value |-> 12, long |-> FALSE]>>
      [] text = "3 day forecast london" -> <<[value |-> 3, long |-> FALSE]>>
      [] text = "help london 5" -> <<[value |-> 5, long |-> FALSE]>>
      [] text = "help london 99" -> <<[value |-> 99, long |-> FALSE]>>
      [] text = "help london 12 hour" -> <<[value |-> 12, long |-> FALSE]>>
      [] text = "help london 9{4301}" -> <<[value |-> 100, long |-> TRUE]>>
      [] text = "help Paris 5" -> <<[value |-> 5, long |-> FALSE]>>
      [] text = "help Paris 99" -> <<[value |-> 99, long |-> FALSE]>>
      [] text = "help Paris 12 hour" -> <<[value |-> 12, long |-> FALSE]>>
      [] text = "help Paris 9{4301}" -> <<[value |-> 100, long |-> TRUE]>>
      [] text = "help 5" -> <<[value |-> 5, long |-> FALSE]>>
      [] text = "help 99" -> <<[value |-> 99, long |-> FALSE]>>
      [] text = "help 12 hour" -> <<[value |-> 12, long |-> FALSE]>>
      [] text = "help 9{4301}" -> <<[value |-> 100, long |-> TRUE]>>
      [] text = "set location london 5" -> <<[value |-> 5, long |-> FALSE]>>
      [] text = "set location london 99" -> <<[value |-> 99, long |-> FALSE]>>
      [] text = "set location london 12 hour" -> <<[value |-> 12, long |-> FALSE]>>
      [] text = "set location london 9{4301}" -> <<[value |-> 100, long |-> TRUE]>>
      [] text = "set location Paris 5" -> <<[value |-> 5, long |-> FALSE]>>
      [] text = "set location Paris 99" -> <<[value |-> 99, long |-> FALSE]>>
      [] text = "set location Paris 12 hour" -> <<[value |-> 12, long |-> FALSE]>>
      [] text = "set location Paris 9{4301}" -> <<[value |-> 100, long |-> TRUE]>>
      [] text = "set location 5" -> <<[value |-> 5, long |-> FALSE]>>
      [] text = "set location 99" -> <<[value |-> 99, long |-> FALSE]>>
      [] text = "set location 12 hour" -> <<[value |-> 12, long |-> FALSE]>>
      [] text = "set location 9{4301}" -> <<[value |-> 100, long |-> TRUE]>>
      [] text = "set units metric london 5" -> <<[value |-> 5, long |-> FALSE]>>
      [] text = "set units metric london 99" -> <<[value |-> 99, long |-> FALSE]>>
      [] text = "set units metric london 12 hour" -> <<[value |-> 12, long |-> FALSE]>>
      [] text = "set units metric london 9{4301}" -> <<[value |-> 100, long |-> TRUE]>>
      [] text = "set units metric Paris 5" -> <<[value |-> 5, long |-> FALSE]>>
      [] text = "set units metric Paris 99" -> <<[value |-> 99, long |-> FALSE]>>
      [] text = "set units metric Paris 12 hour" -> <<[value |-> 12, long |-> FALSE]>>
      [] text = "set units metric Paris 9{4301}" -> <<[value |-> 100, long |-> TRUE]>>
      [] text = "set units metric 5" -> <<[value |-> 5, long |-> FALSE]>>
      [] text = "set units metric 99" -> <<[value |-> 99, long |-> FALSE]>>
      [] text = "set units metric 12 hour" -> <<[value |-> 12, long |-> FALSE]>>
      [] text = "set units metric 9{4301}" -> <<[value |-> 100, long |-> TRUE]>>
      [] text = "alert london 5" -> <<[value |-> 5, long |-> FALSE]>>
      [] text = "alert london 99" -> <<[value |-> 99, long |-> FALSE]>>
      [] text = "alert london 12 hour" -> <<[value |-> 12, long |-> FALSE]>>
      [] text = "alert london 9{4301}" -> <<[value |-> 100, long |-> TRUE]>>
      [] text = "alert Paris 5" -> <<[value |-> 5, long |-> FALSE]>>
      [] text = "alert Paris 99" -> <<[value |-> 99, long |-> FALSE]>>
      [] text = "alert Paris 12 hour" -> <<[value |-> 12, long |-> FALSE]>>
      [] text = "alert Paris 9{4301}" -> <<[value |-> 100, long |-> TRUE]>>
      [] text = "alert 5" -> <<[value |-> 5, long |-> FALSE]>>
      [] text = "alert 99" -> <<[value |-> 99, long |-> FALSE]>>
      [] text = "alert 12 hour" -> <<[value |-> 12, long |-> FALSE]>>
      [] text = "alert 9{4301}" -> <<[value |-> 100, long |-> TRUE]>>
      [] text = "activities for london 5" -> <<[value |-> 5, long |-> FALSE]>>
      [] text = "activities for london 99" -> <<[value |-> 99, long |-> FALSE]>>
      [] text = "activities for london 12 hour" -> <<[value |-> 12, long |-> FALSE]>>
      [] text = "activities for london 9{4301}" -> <<[value |-> 100, long |-> TRUE]>>
      [] text = "activities for Paris 5" -> <<[value |-> 5, long |-> FALSE]>>
      [] text = "activities for Paris 99" -> <<[value |-> 99, long |-> FALSE]>>
      [] text = "activities for Paris 12 hour" -> <<[value |-> 12, long |-> FALSE]>>
      [] text = "activities for Paris 9{4301}" -> <<[value |-> 100, long |-> TRUE]>>
      [] text = "activities for 5" -> <<[value |-> 5, long |-> FALSE]>>
      [] text = "activities for 99" -> <<[value |-> 99, long |-> FALSE]>>
      [] text = "activities for 12 hour" -> <<[value |-> 12, long |-> FALSE]>>
      [] text = "activities for 9{4301}" -> <<[value |-> 100, long |-> TRUE]>>
      [] text = "hourly forecast london 5" -> <<[value |-> 5, long |-> FALSE]>>
      [] text = "hourly forecast london 99" -> <<[value |-> 99, long |-> FALSE]>>
      [] text = "hourly forecast london 12 hour" -> <<[value |-> 12, long |-> FALSE]>>
      [] text = "hourly forecast london 9{4301}" -> <<[value |-> 100, long |-> TRUE]>>
      [] text = "hourly forecast Paris 5" -> <<[value |-> 5, long |-> FALSE]>>
      [] text = "hourly forecast Paris 99" -> <<[value |-> 99, long |-> FALSE]>>
      [] text = "hourly forecast Paris 12 hour" -> <<[value |-> 12, long |-> FALSE]>>
      [] text = "hourly forecast Paris 9{4301}" -> <<[value |-> 100, long |-> TRUE]>>
      [] text = "hourly forecast 5" -> <<[value |-> 5, long |-> FALSE]>>
      [] text = "hourly forecast 99" -> <<[value |-> 99, long |-> FALSE]>>
      [] text = "hourly forecast 12 hour" -> <<[value |-> 12, long |-> FALSE]>>
      [] text = "hourly forecast 9{4301}" -> <<[value |-> 100, long |-> TRUE]>>
      [] text = "forecast london 5" -> <<[value |-> 5, long |-> FALSE]>>
      [] text = "forecast london 99" -> <<[value |-> 99, long |-> FALSE]>>
      [] text = "forecast london 12 hour" -> <<[value |-> 12, long |-> FALSE]>>
      [] text = "forecast london 9{4301}" -> <<[value |-> 100, long |-> TRUE]>>
      [] text = "forecast Paris 5" -> <<[value |-> 5, long |-> FALSE]>>
      [] text = "forecast Paris 99" -> <<[value |-> 99, long |-> FALSE]>>
      [] text = "forecast Paris 12 hour" -> <<[value |-> 12, long |-> FALSE]>>
      [] text = "forecast Paris 9{4301}" -> <<[value |-> 100, long |-> TRUE]>>
      [] text = "forecast 5" -> <<[value |-> 5, long |-> FALSE]>>
      [] text = "forecast 99" -> <<[value |-> 99, long |-> FALSE]>>
      [] text = "forecast 12 hour" -> <<[value |-> 12, long |-> FALSE]>>
      [] text = "forecast 9{4301}" -> <<[value |-> 100, long |-> TRUE]>>
      [] text = "weather london 5" -> <<[value |-> 5, long |-> FALSE]>>
      [] text = "weather london 99" -> <<[value |-> 99, long |-> FALSE]>>
      [] text = "weather london 12 hour" -> <<[value |-> 12, long |-> FALSE]>>
      [] text = "weather london 9{4301}" -> <<[value |-> 100, long |-> TRUE]>>
      [] text = "weather Paris 5" -> <<[value |-> 5, long |-> FALSE]>>
      [] text = "weather Paris 99" -> <<[value |-> 99, long |-> FALSE]>>
      [] text = "weather Paris 12 hour" -> <<[value |-> 12, long |-> FALSE]>>
      [] text = "weather Paris 9{4301}" -> <<[value |-> 100, long |-> TRUE]>>
      [] text = "weather 5" -> <<[value |-> 5, long |-> FALSE]>>
      [] text = "weather 99" -> <<[value |-> 99, long |-> FALSE]>>
      [] text = "weather 12 hour" -> <<[value |-> 12, long |-> FALSE]>>
      [] text = "weather 9{4301}" -> <<[value |-> 100, long |-> TRUE]>>
      [] text = "tomorrow london 5" -> <<[value |-> 5, long |-> FALSE]>>
      [] text = "tomorrow london 99" -> <<[value |-> 99, long |-> FALSE]>>
      [] text = "tomorrow london 12 hour" -> <<[value |-> 12, long |-> FALSE]>>
      [] text = "tomorrow london 9{4301}" -> <<[value |-> 100, long |-> TRUE]>>
      [] text = "tomorrow Paris 5" -> <<[value |-> 5, long |-> FALSE]>>
      [] text = "tomorrow Paris 99" -> <<[value |-> 99, long |-> FALSE]>>
      [] text = "tomorrow Paris 12 hour" -> <<[value |-> 12, long |-> FALSE]>>
      [] text = "tomorrow Paris 9{4301}" -> <<[value |-> 100, long |-> TRUE]>>
      [] text = "tomorrow 5" -> <<[value |-> 5, long |-> FALSE]>>
      [] text = "tomorrow 99" -> <<[value |-> 99, long |-> FALSE]>>
      [] text = "tomorrow 12 hour" -> <<[value |-> 12, long |-> FALSE]>>
      [] text = "tomorrow 9{4301}" -> <<[value |-> 100, long |-> TRUE]>>
      [] text = "what london 5" -> <<[value |-> 5, long |-> FALSE]>>
      [] text = "what london 99" -> <<[value |-> 99, long |-> FALSE]>>
      [] text = "what london 12 hour" -> <<[value |-> 12, long |-> FALSE]>>
      [] text = "what london 9{4301}" -> <<[value |-> 100, long |-> TRUE]>>
      [] text = "what Paris 5" -> <<[value |-> 5, long |-> FALSE]>>
      [] text = "what Paris 99" -> <<[value |-> 99, long |-> FALSE]>>
      [] text = "what Paris 12 hour" -> <<[value |-> 12, long |-> FALSE]>>
      [] text = "what Paris 9{4301}" -> <<[value |-> 100, long |-> TRUE]>>
      [] text = "what 5" -> <<[value |-> 5, long |-> FALSE]>>
      [] text = "what 99" -> <<[value |-> 99, long |-> FALSE]>>
      [] text = "what 12 hour" -> <<[value |-> 12, long |-> FALSE]>>
      [] text = "what 9{4301}" -> <<[value |-> 100, long |-> TRUE]>>
      [] text = "set location help london 5" -> <<[value |-> 5, long |-> FALSE]>>
      [] text = "set location help london 9{4301}" -> <<[value |-> 100, long |-> TRUE]>>
      [] text = "hourly forecast alert london 5" -> <<[value |-> 5, long |-> FALSE]>>
      [] text = "hourly forecast alert london 9{4301}" -> <<[value |-> 100, long |-> TRUE]>>
      [] text = "forecast weather london 5" -> <<[value |-> 5, long |-> FALSE]>>
      [] text = "forecast weather london 9{4301}" -> <<[value |-> 100, long |-> TRUE]>>
      [] text = "set units metric set location london 5" -> <<[value |-> 5, long |-> FALSE]>>
      [] text = "set units metric set location london 9{4301}" -> <<[value |-> 100, long |-> TRUE]>>
      [] text = "alert activities for london 5" -> <<[value |-> 5, long |-> FALSE]>>
      [] text = "alert activities for london 9{4301}" -> <<[value |-> 100, long |-> TRUE]>>
      [] text = "activities for hourly forecast london 5" -> <<[value |-> 5, long |-> FALSE]>>
      [] text = "activities for hourly forecast london 9{4301}" -> <<[value |-> 100, long |-> TRUE]>>
      [] text = "weather forecast london 5" -> <<[value |-> 5, long |-> FALSE]>>
      [] text = "weather forecast london 9{4301}" -> <<[value |-> 100, long |-> TRUE]>>
      [] text = "set location forecast london 5" -> <<[value |-> 5, long |-> FALSE]>>
      [] text = "set location forecast london 9{4301}" -> <<[value |-> 100, long |-> TRUE]>>
      [] OTHER -> <<>>

\* a detection that looks for a forecast before an hourly forecast
detect_command_type_forecast_first(text) ==
    LET m == Matching(text) IN
    IF IsBlank(text) THEN "current"
    ELSE IF "help" \in m THEN "help"
    ELSE IF "set_location" \in m THEN "set_location"
    ELSE IF "set_units" \in m THEN "set_units"
    ELSE IF "alerts" \in m THEN "alerts"
    ELSE IF "activities" \in m THEN "activities"
    ELSE IF "forecast" \in m THEN "forecast"
    ELSE IF "hourly" \in m THEN "hourly"
    ELSE "current"

\* CommandParser.detect_command_type: the value of the CommandType returned
detect_command_type(text) ==
    LET m == Matching(text) IN
    IF IsBlank(text) THEN "current"
    ELSE IF "help" \in m THEN "help"
    ELSE IF "set_location" \in m THEN "set_location"
    ELSE IF "set_units" \in m THEN "set_units"
    ELSE IF "alerts" \in m THEN "alerts"
    ELSE IF "activities" \in m THEN "activities"
    ELSE IF "hourly" \in m THEN "hourly"
    ELSE IF "forecast" \in m THEN "forecast"
    ELSE IF "current" \in m THEN "current"
    ELSE "current"

\* for num_str in numbers: num = int(num_str); if lo <= num <= hi: return num.
\* int() of a run with more digits than the interpreter's limit raises
\* ValueError where the interpreter has the limit and converts where it
\* has none: both outcomes.  A result is [raise, value]; value <<>> = None.
RECURSIVE FirstInRange(_, _, _, _)
FirstInRange(numbers, lo, hi, default) ==
    IF numbers = <<>> THEN {[raise |-> FALSE, value |-> default]}
    ELSE LET num == Head(numbers)
             converted == IF lo <= num.value /\ num.value <= hi
                          THEN {[raise |-> FALSE, value |-> <<num.value>>]}
                          ELSE FirstInRange(Tail(numbers), lo, hi, default)
         IN IF num.long THEN {[raise |-> TRUE, value |-> <<>>]} \cup converted ELSE converted

\* CommandParser._extract_forecast_days
extract_forecast_days(text) ==
    IF DayWord(text) # 0 THEN {[raise |-> FALSE, value |-> <<DayWord(text)>>]}
    ELSE FirstInRange(Numbers(text), 1, 14, <<>>)

\* an extraction without the default of 24 hours
extract_forecast_hours_no_default(text) ==
    IF HasHour(text) THEN FirstInRange(Numbers(text), 1, 48, <<>>)
    ELSE {[raise |-> FALSE, value |-> <<>>]}

\* CommandParser._extract_forecast_hours
extract_forecast_hours(text) ==
    IF HasHour(text) THEN FirstInRange(Numbers(text), 1, 48, <<24>>)
    ELSE {[raise |-> FALSE, value |-> <<24>>]}

NoParams == [units |-> <<>>, days |-> <<>>, hours |-> <<>>]

\* CommandParser._extract_additional_params: [raise, params]
extract_additional_params(text, command_type) ==
    IF command_type = "set_units"
    THEN {[raise |-> FALSE, params |-> [NoParams EXCEPT !.units = extract_units(text)]]}
    ELSE IF command_type = "forecast"
    THEN {[raise |-> x.raise, params |-> [NoParams EXCEPT !.days = x.value]] :
             x \in extract_forecast_days(text)}
    ELSE IF command_type = "hourly"
    THEN {[raise |-> x.raise, params |-> [NoParams EXCEPT !.hours = x.value]] :
             x \in extract_forecast_hours(text)}
    ELSE {[raise |-> FALSE, params |-> NoParams]}

\* CommandParser.parse_command: None, a WeatherCommand, or an exception
parse_command(message) ==
    IF IsBlank(message) THEN {[tag |-> "none"]}
    ELSE LET command_type == detect_command_type(message) IN
         IF command_type = "help"
         THEN {[tag |-> "command", command_type |-> "help", location |-> <<>>,
                time_period |-> <<>>, additional_params |-> NoParams]}
         ELSE {IF x.raise THEN [tag |-> "raise", error |-> "ValueError"]
               ELSE [tag |-> "command", command_type |-> command_type,
                     location |-> extract_location(message),
                     time_period |-> extract_time_period(message),
                     additional_params |-> x.params] :
                  x \in extract_additional_params(message, command_type)}

ParserCalls ==
    [fn : {"detect_command_type"}, done : {FALSE}, text : Texts]
      \cup [fn : {"parse_command"}, done : {FALSE}, message : Texts]

DetectCommandType ==
    /\ call.fn = "detect_command_type"
    /\ Return(detect_command_type(call.text))

ParseCommand ==
    /\ call.fn = "parse_command"
    /\ ~call.done
    /\ \E out \in parse_command(call.message) : Return(out)

InitParser == InitCall(ParserCalls)

NextParser == DetectCommandType \/ ParseCommand

SpecParser == InitParser /\ [][NextParser]_vars

\* ----------------------------------------------------------------------
\* Rate limiter of the API client (api_client.py)
\* ----------------------------------------------------------------------

\* config.rate_limit_per_minute and config.rate_limit_per_day
rate_limit_per_minute == 2
rate_limit_per_day == 3

\* now.replace(hour=0, minute=0, second=0, microsecond=0) + timedelta(days=1):
\* the first midnight after t (t itself excluded)
NextMidnight(t, first_midnight) ==
    IF t < first_midnight THEN first_midnight
    ELSE first_midnight + ((t - first_midnight) \div DayTicks + 1) * DayTicks

\* a limit check that admits one request too many in the minute
check_rate_limit_above(tracker, t) ==
    LET reset == IF t >= tracker.daily_reset
                 THEN [tracker EXCEPT !.daily_count = 0,
                                      !.daily_reset = NextMidnight(t, tracker.first_midnight)]
                 ELSE tracker
        minute_ago == t - MinuteTicks
        cleaned == [reset EXCEPT !.requests = SelectSeq(@, LAMBDA req_time : req_time > minute_ago)]
    IN [tracker |-> cleaned,
        ok |-> IF Len(cleaned.requests) > rate_limit_per_minute THEN FALSE
               ELSE IF cleaned.daily_count >= rate_limit_per_day THEN FALSE
               ELSE TRUE]

\* WeatherAPIClient.check_rate_limit at time t: the tracker it leaves and
\* the value it returns
check_rate_limit(tracker, t) ==
    LET reset == IF t >= tracker.daily_reset
                 THEN [tracker EXCEPT !.daily_count = 0,
                                      !.daily_reset = NextMidnight(t, tracker.first_midnight)]
                 ELSE tracker
        minute_ago == t - MinuteTicks
        cleaned == [reset EXCEPT !.requests = SelectSeq(@, LAMBDA req_time : req_time > minute_ago)]
    IN [tracker |-> cleaned,
        ok |-> IF Len(cleaned.requests) >= rate_limit_per_minute THEN FALSE
               ELSE IF cleaned.daily_count >= rate_limit_per_day THEN FALSE
               ELSE TRUE]

\* WeatherAPIClient._record_request at time t
record_request(tracker, t) ==
    [tracker EXCEPT !.requests = Append(@, t), !.daily_count = @ + 1]

\* WeatherAPIClient._make_request up to the HTTP request: the limit check,
\* then either APIError or the recording and the sending of the request.
\* _ensure_session has no suspension point, so the check and the recording
\* happen in one step of the event loop.  The response does not touch the
\* tracker.
MakeRequest ==
    /\ call.fn = "make_request"
    /\ LET checked == check_rate_limit(rate_limit_tracker, now) IN
       IF ~checked.ok
       THEN rate_limit_tracker' = [checked.tracker EXCEPT !.outcome = "rate_limit_error",
                                                          !.rejected_at = @ \cup {now}]
       ELSE rate_limit_tracker' = [record_request(checked.tracker, now) EXCEPT
                                       !.outcome = "sent", !.sent = Append(@, now)]
    /\ UNCHANGED <<now, state, failure_count, last_failure_time, cache_enabled, cache,
                   req, last, started, call, cleanup>>

\* a client made at time 0, at most a day before the first midnight
InitLimiter ==
    /\ now = 0
    /\ state = "CLOSED"
    /\ failure_count = 0
    /\ last_failure_time = NoTime
    /\ cache_enabled = TRUE
    /\ cache = {}
    /\ req = [p \in Procs |-> IdleReq]
    /\ last = IdleReq
    /\ started = 0
    /\ call = [fn |-> "make_request", done |-> FALSE]
    /\ \E midnight \in 1..DayTicks : rate_limit_tracker = NewTracker(midnight)
    /\ cleanup = NoCleanup

NextLimiter == MakeRequest \/ Tick

SpecLimiter == InitLimiter /\ [][NextLimiter]_vars

\* ----------------------------------------------------------------------
\* The condition of a forecast day (weather_service.py,
\* _convert_openweathermap_forecast)
\* ----------------------------------------------------------------------
MaxEntries == 4

Descriptions == {"clear", "rain", "mist"}

\* conditions.count(c)
CountOf(conditions, c) == Cardinality({i \in DOMAIN conditions : conditions[i] = c})

\* max(set(conditions), key=conditions.count): max returns the first
\* element of greatest count in the iteration order of the set, and the
\* iteration order of a set of strings follows their hashes, which differ
\* from process to process: any description of greatest count may come out.
main_condition(conditions) ==
    LET distinct == {conditions[i] : i \in DOMAIN conditions} IN
    {c \in distinct : \A d \in distinct : CountOf(conditions, d) <= CountOf(conditions, c)}

\* the descriptions of the entries of one date: at least one entry
ConditionCalls ==
    [fn : {"main_condition"}, done : {FALSE},
     conditions : SeqsUpTo(Descriptions, MaxEntries) \ {<<>>}]

MainCondition ==
    /\ call.fn = "main_condition"
    /\ ~call.done
    /\ \E c \in main_condition(call.conditions) : Return(c)

InitCondition == InitCall(ConditionCalls)

SpecCondition == InitCondition /\ [][MainCondition]_vars

\* ----------------------------------------------------------------------
\* Properties.  They read one step of one task p:
\*   Returned(p)  p's request returns or raises in this step
\*   After(p)     p's request after the step
\*   Called(p)    p makes one call of CircuitBreaker.call in this step
\*   Woke(p)      p's back-off sleep ends in this step
\* ----------------------------------------------------------------------
Returned(p) == last'.pc = "done" /\ last'.task = p

After(p) == IF Returned(p) THEN last' ELSE req'[p]

Called(p) == After(p).calls = req[p].calls + 1

Started(p) == req[p].pc = "idle" /\ After(p).pc # "idle"

Woke(p) == req[p].pc = "sleeping" /\ After(p).attempt = req[p].attempt + 1

\* less than or exactly recovery_timeout has passed since the last failure
CoolingDown == last_failure_time # NoTime /\ now - last_failure_time <= recovery_timeout

CooledDown == last_failure_time # NoTime /\ now - last_failure_time > recovery_timeout

\* C1: the failure that brings failure_count to failure_threshold (the
\* count of consecutive failures) leaves the breaker OPEN, and a call
\* made while the breaker is OPEN and recovery_timeout has not elapsed
\* since the last failure is rejected with the breaker-open error: the
\* wrapped function is not invoked and the breaker is unchanged.
C1_OpenRejects ==
    [][/\ (failure_count' = failure_count + 1 /\ failure_count' >= failure_threshold)
             => state' = "OPEN"
       /\ \A p \in Procs :
             (Called(p) /\ state = "OPEN" /\ CoolingDown) =>
                 /\ After(p).invoked = req[p].invoked
                 /\ After(p).rejected = req[p].rejected + 1
                 /\ After(p).last_error = <<BreakerOpenError>>
                 /\ state' = "OPEN"
                 /\ failure_count' = failure_count
                 /\ last_failure_time' = last_failure_time]_vars

\* A call was rejected after failure_threshold failures opened the breaker.
C1_Witness ==
    /\ state = "OPEN"
    /\ failure_count >= failure_threshold
    /\ \E p \in Procs : /\ req[p].pc = "sleeping"
                        /\ req[p].rejected >= 1
                        /\ req[p].invoked = 0
                        /\ req[p].last_error = <<BreakerOpenError>>

\* C2: a call made while the breaker is OPEN and more than
\* recovery_timeout has passed since the last failure invokes the wrapped
\* function with the breaker HALF_OPEN; when that call succeeds,
\* failure_count is 0 and the state is CLOSED.
C2_ProbeRecovers ==
    [][\A p \in Procs :
          /\ (Called(p) /\ state = "OPEN" /\ CooledDown) =>
                 /\ After(p).pc = "inflight"
                 /\ After(p).invoked = req[p].invoked + 1
                 /\ After(p).probe
                 /\ state' = "HALF_OPEN"
          /\ (req[p].pc = "inflight" /\ req[p].probe /\ After(p).fetched # <<>>) =>
                 /\ failure_count' = 0
                 /\ state' = "CLOSED"]_vars

\* A probe call succeeded and closed the breaker.
C2_Witness ==
    /\ last.pc = "done"
    /\ last.probe
    /\ last.fetched # <<>>
    /\ state = "CLOSED"
    /\ failure_count = 0

\* C3: a get_current_weather / get_forecast request that starts while
\* the cache holds an entry for its key with now <= expires_at returns
\* that entry's record in the same step, without a call of the breaker
\* or of the API.
C3_UnexpiredEntryServed ==
    [][\A p \in Procs : \A x \in cache :
          (/\ Started(p)
           /\ After(p).kind \in {"weather", "forecast"}
           /\ parse_location(After(p).location) # <<>>
           /\ x.cache_key = RequestKey(After(p))
           /\ x.data_type = After(p).kind
           /\ now <= x.expires_at) =>
              /\ Returned(p)
              /\ After(p).result = [tag |-> "data", data |-> <<x.data>>, err |-> <<>>]
              /\ After(p).calls = 0
              /\ After(p).invoked = 0
              /\ "api" \notin After(p).touched]_vars

\* A forecast request was answered from the cache.
C3_Witness ==
    /\ last.pc = "done"
    /\ last.kind = "forecast"
    /\ last.path = "hit"
    /\ last.result.tag = "data"
    /\ last.invoked = 0

\* C4: when the APIError handler of a request runs the degradation, the
\* result is the entry of the exact key (whatever its TTL) if there is
\* one; else a similar-location entry created within the window if there
\* is one; else the classified error is raised.
C4_DegradationOrder ==
    [][\A p \in Procs :
          (Returned(p) /\ "fallback" \in After(p).touched) =>
              LET r == After(p)
                  name == parse_location(r.location)[1]
                  exact == {x \in cache : x.cache_key = RequestKey(r) /\ x.data_type = r.kind}
                  first == SimilarRows(cache, name, r.kind, now, FALSE)
                  similar == IF first # {} THEN first
                             ELSE SimilarRows(cache, name, r.kind, now, TRUE)
              IN IF exact # {}
                 THEN /\ r.path = "stale"
                      /\ \E x \in exact :
                            r.result = [tag |-> "data",
                                        data |-> <<Tagged(x.data, CachedTag)>>, err |-> <<>>]
                 ELSE IF similar # {}
                 THEN /\ r.path = "similar"
                      /\ \E x \in similar :
                            r.result = [tag |-> "data",
                                        data |-> <<Tagged([x.data EXCEPT !.location = name],
                                                          SimilarTag)>>,
                                        err |-> <<>>]
                 ELSE /\ r.path = "api_error"
                      /\ r.result = [tag |-> "error", data |-> <<>>,
                                     err |-> <<classify_api_error(r.last_error[1].msg)>>]]_vars

\* A request whose API calls failed returned the entry another request
\* had written for the same key in the meantime.
C4_Witness ==
    /\ last.pc = "done"
    /\ last.path = "stale"
    /\ last.calls = max_retries + 1
    /\ last.result.tag = "data"

\* C5: a request that found an expired entry for its key when it
\* started, and whose API call failed after the retries, returns that
\* entry (marked as cached data).
C5_ExpiredEntryServed ==
    (/\ last.pc = "done"
     /\ last.expired_seen # <<>>
     /\ last.calls = max_retries + 1
     /\ "fallback" \in last.touched) =>
        last.result = [tag |-> "data",
                       data |-> <<Tagged(last.expired_seen[1], CachedTag)>>,
                       err |-> <<>>]

\* C6: a request makes at most max_retries + 1 calls of the guarded API
\* call, and the step in which a call succeeds ends the retry loop: the
\* request returns without another call.
C6_BoundedAttempts ==
    [][\A p \in Procs :
          /\ After(p).calls <= max_retries + 1
          /\ (req[p].pc = "inflight" /\ After(p).fetched # <<>>) =>
                 /\ Returned(p)
                 /\ After(p).calls = req[p].calls]_vars

\* A request succeeded on its last permitted attempt.
C6_Witness ==
    /\ last.pc = "done"
    /\ last.calls = max_retries + 1
    /\ last.invoked = max_retries + 1
    /\ last.path = "fresh"

\* the classes of C7, by the response the API client turned into the error
NonRetryableOrigins == {"http400", "http401", "http403", "http404"}

\* C7: no request waits for a retry after an error of a non-retryable
\* class produced by the API client.
C7_NonRetryableNotRetried ==
    \A p \in Procs :
        req[p].pc = "sleeping" => req[p].last_error[1].origin \notin NonRetryableOrigins

OutOfRange(r) ==
    \/ r.kind = "forecast" /\ r.n \notin 1..16
    \/ r.kind = "hourly" /\ r.n \notin 1..48

\* C9: a forecast / hourly request with its count out of range raises a
\* WeatherError (made from the ValueError of the check), which is no
\* APIError, without having touched the location service, the
\* preferences, the cache, the breaker or the API, without a sleep and
\* without the degradation lookup; no such request is ever suspended.
C9_RangeCheckedFirst ==
    /\ \A p \in Procs : req[p].pc # "idle" => ~OutOfRange(req[p])
    /\ (last.pc = "done" /\ OutOfRange(last)) =>
          /\ last.result.tag = "error"
          /\ last.result.err[1].cls = "WeatherError"
          /\ last.result.err[1].raw = {"ValueError"}
          /\ last.touched = {}
          /\ last.calls = 0
          /\ last.slept = <<>>

\* An hourly request for 49 hours was refused.
C9_Witness ==
    /\ last.pc = "done"
    /\ last.kind = "hourly"
    /\ last.n = 49
    /\ last.result.tag = "error"

\* C10: a get_current_weather request whose API call returned a payload
\* with all the fields returns a record.
C10_CompletePayloadServed ==
    (/\ last.pc = "done"
     /\ last.kind = "weather"
     /\ last.fetched # <<>>
     /\ last.fetched[1].complete) => last.result.tag = "data"

\* C11: an error raised by a request method carries no text of an
\* underlying exception (raw = {}).  The error of the range check is left
\* out: the text it embeds is the fixed message of the check itself.
C11_NoRawText ==
    (last.pc = "done" /\ last.result.tag = "error" /\ last.path # "validation_error")
        => last.result.err[1].raw = {}

\* the record carries one of the two marks in its condition text
Marked(data) ==
    /\ HasCondition(data)
    /\ Len(data.condition) >= 2
    /\ data.condition[1] \in {CachedTag, SimilarTag}

\* C12: a record returned by the degradation, for current weather and for
\* forecast, is marked as cached or similar-location data.
C12_DegradedMarked ==
    (last.pc = "done" /\ last.path \in {"stale", "similar"}) => Marked(last.result.data[1])

\* the rows of the request's key and data type
RowsOf(r, rows) == {x \in rows : x.cache_key = RequestKey(r) /\ x.data_type = r.kind}

\* C13: while the upstream works, a request that starts when the entry of
\* its key has expired (now > expires_at) makes one upstream call, and
\* returns with exactly that one call, the fresh record and the entry
\* rewritten with a new TTL; a request that starts within the TTL of the
\* entry returns without an upstream call.
C13_RefreshOnce ==
    [][\A p \in Procs :
          /\ \A x \in cache :
                (Started(p) /\ x \in RowsOf(After(p), cache)) =>
                    IF now > x.expires_at
                    THEN /\ After(p).pc = "inflight"
                         /\ After(p).invoked = 1
                         /\ After(p).calls = 1
                    ELSE /\ Returned(p)
                         /\ After(p).invoked = 0
          /\ (req[p].pc = "inflight" /\ Returned(p)) =>
                /\ After(p).path = "fresh"
                /\ After(p).invoked = 1
                /\ After(p).calls = 1
                /\ cache_enabled =>
                      \E y \in RowsOf(After(p), cache') :
                          /\ y.data = After(p).result.data[1]
                          /\ y.expires_at = now + cache_ttl_current]_vars

\* The third request for the key was served from the entry that the
\* second request wrote after the first entry had expired.
C13_Witness ==
    /\ started = MaxRequests + 1
    /\ last.pc = "done"
    /\ last.path = "hit"
    /\ last.invoked = 0
    /\ \E x \in RowsOf(last, cache) : x.created_at > cache_ttl_current /\ x.access_count = 1

\* a get_current_weather / get_forecast request that gets as far as the
\* cache lookup
LooksUp(r) ==
    /\ r.kind \in {"weather", "forecast"}
    /\ ~OutOfRange(r)
    /\ parse_location(r.location) # <<>>

\* C14: the lookup of a request never serves an entry with now >
\* expires_at: the request that finds such an entry for its key is not
\* answered from the cache, and the entry is gone from the table after
\* the lookup; a request answered from the cache got an entry with
\* now <= expires_at.
C14_ExpiredNeverServed ==
    [][\A p \in Procs :
          (Started(p) /\ LooksUp(After(p))) =>
              /\ \A x \in RowsOf(After(p), cache) :
                    now > x.expires_at =>
                        /\ After(p).path # "hit"
                        /\ After(p).result.data # <<x.data>>
                        /\ RowsOf(After(p), cache') = {}
              /\ After(p).path = "hit" =>
                    \E x \in RowsOf(After(p), cache) :
                        /\ now <= x.expires_at
                        /\ After(p).result.data = <<x.data>>]_vars

\* A request found the entry of its key expired: it is waiting for the
\* API and the table holds no entry for the key.
C14_Witness ==
    \E p \in Procs :
        /\ req[p].pc = "inflight"
        /\ req[p].expired_seen # <<>>
        /\ RowsOf(req[p], cache) = {}

\* C15: a get_current_weather / get_forecast request that returns the
\* fresh record of a successful fetch leaves, when the cache is enabled,
\* exactly one entry under its key: that record, created now, expiring at
\* now + cache_ttl_current for current weather and now + cache_ttl_forecast
\* for a forecast.
C15_WriteThroughTtl ==
    [][\A p \in Procs :
          (/\ req[p].pc = "inflight"
           /\ Returned(p)
           /\ After(p).path = "fresh"
           /\ After(p).kind \in {"weather", "forecast"}
           /\ cache_enabled) =>
              /\ Cardinality(RowsOf(After(p), cache')) = 1
              /\ \A y \in RowsOf(After(p), cache') :
                    /\ y.data = After(p).result.data[1]
                    /\ y.created_at = now
                    /\ y.expires_at = now + (IF After(p).kind = "weather"
                                             THEN cache_ttl_current
                                             ELSE cache_ttl_forecast)]_vars

\* A fresh forecast was written with the forecast TTL.
C15_Witness ==
    /\ last.pc = "done"
    /\ last.kind = "forecast"
    /\ last.path = "fresh"
    /\ \E y \in RowsOf(last, cache) :
          y.created_at = now /\ y.expires_at = now + cache_ttl_forecast

\* p's request is cancelled in this step
Cancelled(p) ==
    /\ req[p].pc = "inflight"
    /\ last'.pc = "cancelled"
    /\ last'.task = p

\* the invoked function of p's call raises in this step
Failed(p) ==
    /\ req[p].pc = "inflight"
    /\ After(p).pc # "inflight"
    /\ After(p).fetched = <<>>
    /\ ~Cancelled(p)

C17_LocationFailureStopsRequest ==
    [][\A p \in Procs :
          (/\ Started(p)
           /\ ~OutOfRange(After(p))
           /\ parse_location(After(p).location) = <<>>) =>
              /\ Returned(p)
              /\ After(p).result.tag = "error"
              /\ After(p).result.err[1].cls = "LocationError"
              /\ After(p).result.err[1].key =
                    (IF suggest_corrections(After(p).location) # <<>>
                     THEN "did_you_mean" ELSE "cannot_resolve")
              /\ After(p).touched = {"location"}
              /\ After(p).calls = 0
              /\ After(p).invoked = 0
              /\ cache' = cache
              /\ <<state, failure_count, last_failure_time>>' =
                    <<state, failure_count, last_failure_time>>]_vars

\* A forecast request with a refused location ended with the location
\* error while the cache held an entry.
C17_Witness ==
    /\ last.pc = "done"
    /\ last.kind = "forecast"
    /\ last.path = "location_error"
    /\ last.result.err[1].cls = "LocationError"
    /\ last.touched = {"location"}
    /\ cache # {}

Succeeded(p) ==
    /\ req[p].pc = "inflight"
    /\ After(p).fetched # <<>>

\* C19: with two tasks sharing the breaker, every step in which a call
\* fails adds exactly one to failure_count, every step in which a call
\* succeeds sets it to 0, and no other step changes it; so failure_count
\* is the number of failures completed since the last completed success.
C19_NoLostBreakerUpdate ==
    [][IF \E p \in Procs : Failed(p) THEN failure_count' = failure_count + 1
       ELSE IF \E p \in Procs : Succeeded(p) THEN failure_count' = 0
       ELSE failure_count' = failure_count]_vars

\* Two requests in flight together have failed once each: both wait for
\* their retry and the breaker has counted two failures.
C19_Witness ==
    /\ failure_count = 2
    /\ \A p \in Procs : /\ req[p].pc = "sleeping"
                        /\ req[p].invoked = 1
                        /\ req[p].attempt = 0

\* state and failure_count as the transition rules leave them
BreakerConsistent ==
    /\ state \in {"CLOSED", "OPEN", "HALF_OPEN"}
    /\ state = "CLOSED" => failure_count < failure_threshold
    /\ state # "CLOSED" => failure_count >= failure_threshold
    /\ failure_count > 0 => last_failure_time # NoTime

\* every entry is a whole record written by a finished fetch
EntriesWhole ==
    \A x \in cache :
        /\ x.data_type = "weather"
        /\ x.data.location = x.location
        /\ x.cache_key = generate_cache_key(x.location, "weather", 0, x.data.units)
        /\ x.expires_at = x.created_at + cache_ttl_current
        /\ WeatherDataPostInitOk(x.data)

\* C20: a request cancelled while its HTTP request is in flight changes
\* neither the cache table nor the breaker; after every step the entries
\* of the table are whole records and state and failure_count agree with
\* the transition rules; and every call to the breaker, those after a
\* cancellation included, is invoked unless the breaker is OPEN and
\* cooling down.
C20_CancellationLeavesConsistent ==
    [][/\ \A p \in Procs :
             /\ Cancelled(p) =>
                   /\ cache' = cache
                   /\ <<state, failure_count, last_failure_time>>' =
                         <<state, failure_count, last_failure_time>>
                   /\ req'[p].pc = "idle"
             /\ Called(p) =>
                   After(p).invoked = req[p].invoked
                      + (IF state = "OPEN" /\ ~CooledDown THEN 0 ELSE 1)
       /\ BreakerConsistent'
       /\ EntriesWhole']_vars

\* The probe of a HALF_OPEN breaker was cancelled, and a later call is
\* admitted: it is in flight, it is not the probe, and no other request
\* is running.
C20_Witness ==
    /\ state = "HALF_OPEN"
    /\ started = MaxRequests + 1
    /\ \E p \in Procs : /\ req[p].pc = "inflight"
                        /\ ~req[p].probe
                        /\ req[p].invoked = 1
                        /\ \A q \in Procs \ {p} : req[q].pc = "idle"

\* C21: while a request is suspended (waiting for the API or sleeping
\* between retries), a task that is idle can start a request for another
\* key, a request for another key that waits for the API can take its
\* response, and one that sleeps can wake up: nothing of the suspended
\* request blocks them.
C21_OtherKeysProceed ==
    \A p \in Procs : \A q \in Procs \ {p} :
        Suspended(p) =>
            /\ (req[q].pc = "idle" /\ started < MaxRequests) =>
                  \A r \in RequestsConcurrent :
                      RequestKey(r) # RequestKey(req[p]) => ENABLED Start(q, r)
            /\ (req[q].pc = "inflight" /\ RequestKey(req[q]) # RequestKey(req[p])) =>
                  \A raw_data \in PayloadsConcurrent : ENABLED CompleteOk(q, raw_data)
            /\ (req[q].pc = "sleeping" /\ RequestKey(req[q]) # RequestKey(req[p])) =>
                  ENABLED Wake(q)

\* A request for wellington started and returned fresh data while the
\* request for london, started before it, is still suspended.
C21_Witness ==
    /\ last.pc = "done"
    /\ last.path = "fresh"
    /\ last.location = "wellington"
    /\ \E p \in Procs \ {last.task} :
          /\ Suspended(p)
          /\ req[p].location = "london"
          /\ req[p].calls >= 1
    /\ started = 2

\* the ranges of a WeatherRecord
RecordInRange(d) ==
    /\ 0 <= d.humidity /\ d.humidity <= 100
    /\ 0 <= d.wind_direction /\ d.wind_direction < 360
    /\ 0 <= d.wind_speed /\ d.wind_speed <= 500
    /\ 800 <= d.pressure /\ d.pressure <= 1100
    /\ 0 - 100 <= d.temperature /\ d.temperature <= 60

\* C22: the record a get_current_weather request returns from a fresh
\* fetch, and every record in the cache table after it, has humidity in
\* 0..100, wind_direction in 0..359, wind_speed in 0..500, pressure in
\* 800..1100 and temperature in -100..60.
C22_FreshRecordInRange ==
    [][\A p \in Procs :
          (/\ req[p].pc = "inflight"
           /\ Returned(p)
           /\ After(p).kind = "weather"
           /\ After(p).path = "fresh") =>
              /\ RecordInRange(After(p).result.data[1])
              /\ \A x \in cache' : x.data_type = "weather" => RecordInRange(x.data)]_vars

\* C23: every forecast the conversion returns has, in each day,
\* high_temp >= low_temp, precipitation_chance in 0..100 and humidity in
\* 0..100, its days in non-decreasing date order, and no more days than
\* were requested.
C23_ForecastDaysSound ==
    (call.fn = "convert_forecast_data" /\ call.done /\ call.out.ok) =>
        LET days == call.out.days IN
        /\ \A i \in DOMAIN days :
              /\ days[i].high_temp >= days[i].low_temp
              /\ 0 <= days[i].precipitation_chance /\ days[i].precipitation_chance <= 100
              /\ 0 <= days[i].humidity /\ days[i].humidity <= 100
        /\ \A i \in DOMAIN days : \A j \in DOMAIN days : i <= j => days[i].date <= days[j].date
        /\ Len(days) <= call.args.days

KeysMade == call.fn = "generate_cache_key" /\ call.done

C25_SanitizeIdempotent ==
    (call.fn = "sanitize_weather_data" /\ call.done) => call.out.twice = call.out.once

\* A record with every reading out of range was changed by the first pass
\* and left alone by the second.
C25_Witness ==
    /\ call.fn = "sanitize_weather_data"
    /\ call.done
    /\ call.args.data.temperature > 60
    /\ call.args.data.humidity < 0
    /\ call.args.data.wind_speed > 500
    /\ call.args.data.pressure < 800
    /\ call.args.data.wind_direction > 360
    /\ call.args.data.condition = <<" mist ">>
    /\ call.out.once # call.args.data
    /\ call.out.twice = call.out.once

RECURSIVE Pow(_, _)
Pow(b, e) == IF e = 0 THEN 1 ELSE b * Pow(b, e - 1)

\* base x 1.5^(k-1), in quarter seconds, for a base of one second
Backoff(k) == (Quarters(1) * Pow(3, k - 1)) \div Pow(2, k - 1)

\* the factor the claim gives to an error of the API client
ClassFactor(e) ==
    IF e.origin = "http429" THEN 3
    ELSE IF e.origin = "http5xx" THEN 2
    ELSE 1

\* C26: when a request starts the wait before its k-th retry, the wait is
\* ClassFactor x base x 1.5^(k-1) for the error of the attempt that just
\* failed: factor 3 for HTTP 429, 2 for a 5xx status, 1 for a timeout, a
\* connection error or any other error.
C26_DelayByClass ==
    [][\A p \in Procs :
          (/\ After(p).pc = "sleeping"
           /\ Len(After(p).slept) = Len(req[p].slept) + 1) =>
              LET k == Len(After(p).slept) IN
              After(p).slept[k] = ClassFactor(After(p).last_error[1]) * Backoff(k)]_vars

\* the intents in the order of the claim
IntentOrder == <<"help", "set_location", "set_units", "alerts", "activities",
                 "hourly", "forecast", "current">>

\* C27: the intent detected for a text is the earliest intent of
\* IntentOrder that has a pattern matching the text, and CURRENT_WEATHER
\* when no pattern of any intent matches.
C27_FirstMatchWins ==
    (call.fn = "detect_command_type" /\ call.done) =>
        LET found == {i \in DOMAIN IntentOrder : IntentOrder[i] \in Matching(call.args.text)} IN
        /\ found # {} => /\ IntentOrder[MinOf(found)] = call.out
                         /\ \A i \in found : \A j \in DOMAIN IntentOrder :
                               IntentOrder[j] = call.out => j <= i
        /\ found = {} => call.out = "current"

\* A text that matches a pattern of the hourly forecast and one of the
\* forecast was detected as an hourly forecast.
C27_Witness ==
    /\ call.fn = "detect_command_type"
    /\ call.done
    /\ {"hourly", "forecast"} \subseteq Matching(call.args.text)
    /\ call.out = "hourly"

CommandTypes == {"help", "set_location", "set_units", "alerts", "activities",
                 "hourly", "forecast", "current"}

\* C28: parse_command raises nothing; it returns None exactly for an
\* empty or blank message; and a command it returns has one of the
\* command types and a location and a time period that are absent or
\* non-empty.
C28_ParseNeverRaises ==
    (call.fn = "parse_command" /\ call.done) =>
        /\ call.out.tag # "raise"
        /\ call.out.tag = "none" <=> IsBlank(call.args.message)
        /\ call.out.tag = "command" =>
              /\ call.out.command_type \in CommandTypes
              /\ call.out.location # <<"">>
              /\ call.out.time_period # <<"">>

\* the requests sent at a time in S
SentIn(S) == {i \in DOMAIN rate_limit_tracker.sent : rate_limit_tracker.sent[i] \in S}

\* the calendar day of time t, counted from the day the client was made in
DayOf(t) ==
    IF t < rate_limit_tracker.first_midnight THEN 0
    ELSE (t - rate_limit_tracker.first_midnight) \div DayTicks + 1

\* the requests sent on the calendar day d
SentOn(d) == {i \in DOMAIN rate_limit_tracker.sent : DayOf(rate_limit_tracker.sent[i]) = d}

\* C29: in every step of _make_request: a request that would be one more
\* than rate_limit_per_minute in the minute up to now, or one more than
\* rate_limit_per_day on the day of now, gets the rate-limit error and is
\* not sent; any other request is sent, in particular every request that
\* comes when all earlier ones are more than one minute old and the day
\* has room; and after the step no minute has more than
\* rate_limit_per_minute requests and no day more than rate_limit_per_day.
C29_RateLimited ==
    [][rate_limit_tracker' # rate_limit_tracker =>
         LET beyond == \/ Cardinality(SentIn((now - MinuteTicks + 1)..now)) >= rate_limit_per_minute
                       \/ Cardinality(SentOn(DayOf(now))) >= rate_limit_per_day
         IN /\ beyond => /\ rate_limit_tracker'.outcome = "rate_limit_error"
                         /\ rate_limit_tracker'.sent = rate_limit_tracker.sent
            /\ ~beyond => /\ rate_limit_tracker'.outcome = "sent"
                          /\ rate_limit_tracker'.sent = Append(rate_limit_tracker.sent, now)
            /\ \A t \in 0..MaxTime :
                  Cardinality({i \in DOMAIN rate_limit_tracker'.sent :
                                  rate_limit_tracker'.sent[i] \in (t - MinuteTicks + 1)..t})
                     <= rate_limit_per_minute
            /\ \A d \in 0..(MaxTime + 1) :
                  Cardinality({i \in DOMAIN rate_limit_tracker'.sent :
                                  DayOf(rate_limit_tracker'.sent[i]) = d})
                     <= rate_limit_per_day
      ]_vars

\* Requests were rejected for the minute and, on another day, for the
\* day, and a request was sent after that.
C29_Witness ==
    /\ rate_limit_tracker.outcome = "sent"
    /\ \E t \in rate_limit_tracker.rejected_at :
          /\ Cardinality(SentIn((t - MinuteTicks + 1)..t)) >= rate_limit_per_minute
          /\ Cardinality(SentOn(DayOf(t))) < rate_limit_per_day
    /\ \E t \in rate_limit_tracker.rejected_at :
          /\ Cardinality(SentIn((t - MinuteTicks + 1)..t)) < rate_limit_per_minute
          /\ Cardinality(SentOn(DayOf(t))) >= rate_limit_per_day
    /\ \E i \in DOMAIN rate_limit_tracker.sent : \E t \in rate_limit_tracker.rejected_at :
          rate_limit_tracker.sent[i] > t

\* C30: every change of the breaker state is one of CLOSED -> OPEN,
\* OPEN -> HALF_OPEN, HALF_OPEN -> CLOSED and HALF_OPEN -> OPEN, also with
\* several calls in flight.
C30_TransitionsOnly ==
    [][state' # state =>
          <<state, state'>> \in {<<"CLOSED", "OPEN">>, <<"OPEN", "HALF_OPEN">>,
                                 <<"HALF_OPEN", "CLOSED">>, <<"HALF_OPEN", "OPEN">>}
      ]_vars

\* the categories of an upstream failure, by what the API client saw
CategoriesOf(origin) ==
    IF origin = "http429" THEN {"rate_limit"}
    ELSE IF origin = "http404" THEN {"location_not_found"}
    ELSE IF origin \in {"network", "timeout"} THEN {"network_error"}
    ELSE IF origin = "http401" THEN {"auth_error"}
    ELSE IF origin = "http403" THEN {"invalid_api_key"}
    ELSE IF origin = "http5xx" THEN {"maintenance", "server_error"}
    ELSE {"api_unavailable"}

\* C31: a request that ends in the classified API error (no degraded data)
\* carries the category of the upstream failure the API client reported
\* last: rate limit for HTTP 429, not found for 404, network for a
\* connection error or timeout, unauthorized for 401, forbidden for 403,
\* maintenance or server error for 5xx, and unavailable for anything else.
C31_CategoryOfOrigin ==
    [][\A p \in Procs :
          (Returned(p) /\ After(p).path = "api_error") =>
              After(p).result.err[1].key \in CategoriesOf(After(p).last_error[1].origin)]_vars

\* C32: the record a request returns from the similar-location fallback
\* has the units of the requesting user, is of the requested data type
\* (a forecast has days, current weather has none), has at most the
\* requested number of days, and comes from an entry of that data type
\* created less than the window ago.
C32_SimilarMatchesRequest ==
    [][\A p \in Procs :
          (Returned(p) /\ After(p).path = "similar") =>
              LET r == After(p)
                  d == r.result.data[1]
              IN /\ d.units = UserUnits(r.user_id)
                 /\ ("days" \in DOMAIN d) <=> (r.kind = "forecast")
                 /\ r.kind = "forecast" => Len(d.days) <= r.n
                 /\ \E x \in cache : /\ x.data_type = r.kind
                                     /\ x.created_at > now - SimilarWindow]_vars

\* x was in the cache before the step, access bookkeeping aside
Kept(x) ==
    \E y \in cache : /\ y.cache_key = x.cache_key
                     /\ y.data_type = x.data_type
                     /\ y.data = x.data
                     /\ y.created_at = x.created_at
                     /\ y.expires_at = x.expires_at

\* C33: every entry that is in the cache after a step and was not there
\* before it (new, or overwriting another) was written by a request that
\* returns freshly fetched data in that step, under that request's key:
\* requests that end in a validation, location, API or conversion error
\* or in a stale or similar result write nothing.
C33_WriteThroughOnly ==
    [][\A x \in cache' :
          Kept(x) \/ \E p \in Procs : /\ Returned(p)
                                      /\ After(p).path = "fresh"
                                      /\ After(p).fetched # <<>>
                                      /\ x.cache_key = RequestKey(After(p))]_vars

\* A request whose API calls failed returned the entry of a similar
\* location, and the cache holds that entry and none under the request's
\* own key.
C33_Witness ==
    /\ last.pc = "done"
    /\ last.path = "similar"
    /\ last.calls >= 1
    /\ cache # {}
    /\ \A x \in cache : x.cache_key # RequestKey(last)

\* C34: an entry that is in the cache before and after a step has the
\* same payload, created_at and expires_at after it, and an access_count
\* that is not smaller, also when two requests that missed on the same key
\* both write through.
C34_EntryImmutable ==
    [][\A x \in cache : \A y \in cache' :
          (y.cache_key = x.cache_key /\ y.data_type = x.data_type) =>
              /\ y.data = x.data
              /\ y.created_at = x.created_at
              /\ y.expires_at = x.expires_at
              /\ y.access_count >= x.access_count]_vars

\* C35: the condition of a day occurs among the day's entries at least as
\* often as every other description, and of the descriptions that occur
\* that often it is the one whose first occurrence is the earliest.
C35_MostFrequentFirstSeen ==
    (call.fn = "main_condition" /\ call.done) =>
        LET conditions == call.args.conditions
            first(c) == MinOf({i \in DOMAIN conditions : conditions[i] = c})
        IN \A i \in DOMAIN conditions :
              /\ CountOf(conditions, conditions[i]) <= CountOf(conditions, call.out)
              /\ CountOf(conditions, conditions[i]) = CountOf(conditions, call.out)
                    => first(call.out) <= i

\* a parse_command call returned an hourly-forecast command
HourlyParsed ==
    /\ call.fn = "parse_command"
    /\ call.done
    /\ call.out.tag = "command"
    /\ call.out.command_type = "hourly"

\* the digit runs of the text with a value from 1 to 48
HoursInText(text) ==
    {i \in DOMAIN Numbers(text) : /\ 1 <= Numbers(text)[i].value
                                  /\ Numbers(text)[i].value <= 48}

\* C36 as stated: the hours parameter of an hourly-forecast command is the
\* first number from 1 to 48 in a text with the word 'hour', 24 when the
\* text has the word 'hour' and no such number, and absent when the word
\* 'hour' does not occur.
C36_HoursByWord ==
    HourlyParsed =>
        LET text == call.args.message
            hours == call.out.additional_params.hours
        IN /\ (HasHourWord(text) /\ HoursInText(text) # {}) =>
                  hours = <<Numbers(text)[MinOf(HoursInText(text))].value>>
           /\ (HasHourWord(text) /\ HoursInText(text) = {}) => hours = <<24>>
           /\ ~HasHourWord(text) => hours = <<>>

\* C36, amended: the hours parameter of an hourly-forecast command is
\* always present: the first number from 1 to 48 in the text, and 24 when
\* the text has no such number.
C36_HoursAlwaysPresent ==
    HourlyParsed =>
        LET text == call.args.message
            hours == call.out.additional_params.hours
        IN /\ HoursInText(text) # {} =>
                  hours = <<Numbers(text)[MinOf(HoursInText(text))].value>>
           /\ HoursInText(text) = {} => hours = <<24>>

\* An hourly-forecast command was parsed from a text without the word
\* 'hour' (the Chinese phrase for hourly forecast and a place) and has 24
\* hours.
C36_Witness ==
    /\ HourlyParsed
    /\ ~HasHourWord(call.args.message)
    /\ HoursInText(call.args.message) = {}
    /\ call.out.additional_params.hours = <<24>>

\* C37: in every state, with calls of two tasks in flight: an OPEN or
\* HALF_OPEN breaker has counted at least failure_threshold failures and
\* has a last_failure_time, and a CLOSED breaker has counted fewer than
\* failure_threshold.
C37_StateMatchesCount ==
    /\ state \in {"OPEN", "HALF_OPEN"} =>
          /\ failure_count >= failure_threshold
          /\ last_failure_time # NoTime
    /\ state = "CLOSED" => failure_count < failure_threshold

\* The breaker is OPEN while the call of one task, admitted before it
\* opened, is still in flight and the other task has finished.
C37_Witness ==
    /\ state = "OPEN"
    /\ failure_threshold >= 1
    /\ \E p \in Procs : /\ req[p].pc = "inflight"
                        /\ req[p].invoked >= 1
                        /\ \A q \in Procs \ {p} : req[q].pc = "idle"
    /\ started = 2

\* C38: a step in which a call is rejected by the open breaker leaves
\* state, failure_count and last_failure_time as they were; and a call
\* made when more than recovery_timeout has passed since last_failure_time
\* is invoked, whatever the number of calls rejected before it.
C38_RejectionsLeaveBreaker ==
    [][\A p \in Procs :
          /\ (After(p).rejected = req[p].rejected + 1) =>
                /\ state' = state
                /\ failure_count' = failure_count
                /\ last_failure_time' = last_failure_time
          /\ (Called(p) /\ state = "OPEN" /\ CooledDown) =>
                /\ After(p).invoked = req[p].invoked + 1
                /\ After(p).rejected = req[p].rejected]_vars

\* The first two attempts of a request were rejected, time passed, and
\* the third attempt is in flight as the probe of the HALF_OPEN breaker:
\* last_failure_time is still the time of the failure that opened it.
C38_Witness ==
    /\ state = "HALF_OPEN"
    /\ \E p \in Procs : /\ req[p].pc = "inflight"
                        /\ req[p].probe
                        /\ req[p].rejected = 2
                        /\ req[p].invoked = 1
    /\ now - last_failure_time = recovery_timeout + 1

\* C39: in every interleaving of the sweep thread with the requests, an
\* entry that leaves the table without being replaced under its key had
\* expired (the clock was past its expires_at = created_at + TTL), and a
\* lookup of a key whose entry has not expired is served that entry.
C39_OnlyExpiredRemoved ==
    [][/\ \A x \in cache :
             (\A y \in cache' : y.cache_key # x.cache_key) => now > x.expires_at
       /\ \A p \in Procs :
             (/\ Started(p)
              /\ cache_enabled
              /\ After(p).kind # "hourly"
              /\ \E x \in cache : /\ x.cache_key = RequestKey(After(p))
                                  /\ x.data_type = After(p).kind
                                  /\ now <= x.expires_at) =>
                 /\ Returned(p)
                 /\ last'.path = "hit"
                 /\ \E x \in cache : /\ x.cache_key = RequestKey(last')
                                     /\ last'.result.data = from_dict(x.data)]_vars

\* A sweep has deleted expired rows, and an entry written earlier is in
\* the table at the very tick it expires at.
C39_Witness ==
    /\ cleanup.pc = "waiting"
    /\ cleanup.deleted_count >= 1
    /\ \E x \in cache : x.expires_at = now /\ x.created_at < now

\* C40: when a call of the upstream fails with an exception that is not
\* an APIError, the request ends in that step without another call of
\* the breaker and without a sleep, failure_count grows by one, the
\* degradation lookup is not run and the cache is left alone, and the
\* request raises the generic WeatherError that wraps the exception.
C40_OtherExceptionOnce ==
    [][\A p \in Procs :
          (/\ req[p].pc = "inflight"
           /\ After(p).last_error # req[p].last_error
           /\ After(p).last_error # <<>>
           /\ After(p).last_error[1].cls # "APIError") =>
              /\ Returned(p)
              /\ After(p).calls = req[p].calls
              /\ After(p).invoked = req[p].invoked
              /\ After(p).slept = req[p].slept
              /\ failure_count' = failure_count + 1
              /\ "fallback" \notin After(p).touched
              /\ cache' = cache
              /\ last'.path = "exception"
              /\ last'.result = [tag |-> "error", data |-> <<>>,
                                 err |-> WrappedError("crash")]]_vars

\* The first attempt of a request failed with such an exception: one
\* call, one failure counted, no sleep, no fallback, a WeatherError.
C40_Witness ==
    /\ last.pc = "done"
    /\ last.result.err = WrappedError("crash")
    /\ last.calls = 1
    /\ last.invoked = 1
    /\ last.slept = <<>>
    /\ "fallback" \notin last.touched
    /\ failure_count = 1
====
